---- MODULE Spec2Model ----
(***************************************************************************)
(* Library store (utils/libraryManager.js), library screen with the page   *)
(* ingestion loop (screens/LibraryScreen.js), and the player screen: page  *)
(* navigation with its lock and deferral, speech, the listening timer and  *)
(* the state it writes back to the store.                                  *)
(*                                                                         *)
(* Specifications: Spec (library screen), SpecFault (the same on a storage *)
(* that can fail), SpecLive (Spec with fair loops and reloads), SpecPlayer *)
(* and SpecPlayerLive (player screen), SpecStore (the store's functions    *)
(* called in any order and overlap), SpecSpeech (word index of a speech    *)
(* boundary) and SpecFit (page-fit scale in rounded arithmetic).           *)
(*                                                                         *)
(* JavaScript runs one task at a time; a task gives up control only at an  *)
(* await (or a timer).  Every action below is one such segment: the         *)
(* completion of the awaited I/O together with the code that runs up to    *)
(* the next await.  An async call chain in flight is an element of the bag *)
(* tasks, its pc naming the await it is suspended at.                       *)
(***************************************************************************)
EXTENDS Integers, Sequences, FiniteSets, Bags, TLC

\* ---------------------------------------------------------------- bounds
NumDocs == 1        \* identifiers the remote service hands out: 1..NumDocs
MaxPages == 2       \* largest total_paginas the remote service reports
MaxReloads == 1     \* loadBooksFromStorage calls in flight at the same time
MaxEvents == 2      \* user and system events: remove, retry, open, leave, focus, restart
MaxListen == 1      \* seconds listened in one stay on the player screen
PlayerPages == 2    \* total_paginas of the book opened in the player
MaxSeconds == 1     \* seconds the listening timer counts in one run
MaxStateCalls == 2  \* updateBookState calls of the player in flight at the same time
MaxWord == 1        \* index of the last word of a page's text
NumStoreDocs == 2   \* documents the store is called for
StoreTotal == 2     \* total_paginas of each of them
MaxInFlight == 2    \* store calls in flight at the same time
MaxCalls == 3       \* store calls altogether
MaxText == 1        \* characters of an annotation's text
MaxTooLarge == 1    \* picks of a file that is too large
MaxSpeechText == 5  \* characters of a text handed to startSpeech
MaxFromWord == 2    \* largest word index speech is started from
MantissaBits == 6   \* bits of the significand of a number (a double has 53)
MaxContainer == 4   \* largest width and height of the content area

Docs == 1..NumDocs
Statuses == {"processing", "ready", "failed"}

VARIABLES
    storedLibrary,      \* AsyncStorage item LIBRARY_KEY: the metadata list
    bookFiles,          \* book-data/<id>.json: [exists, pages]
    pdfFiles,           \* ids whose cached source file (localUri) exists
    processingControl,  \* the module-level object processingControl (set of ids)
    library,            \* React state library
    progress,           \* React state progress
    isUploading,        \* React state isUploading
    effectPending,      \* library changed and the pendingBook effect has not run yet
    tasks,              \* bag of async call chains in flight
    nextId,             \* next identifier the remote service will assign
    playerBook,         \* id of the book the player screen shows; 0: the library screen has focus
    events,             \* user and system events so far (press, focus, restart)
    removeAsked,        \* history: ids for which "Remover" was pressed
    removedMidFetch,    \* history: ids whose removal ended while a loop awaited a page
    failedAt,           \* history: per id, the page whose fetch failed last (0: none,
                        \*   or a page was appended since)
    onesReported,       \* history: per id, how often the loop published the ratio 1
    awaitingRetry,      \* history: ids whose loop persisted failed, no retry persisted since
    removedPersisted,   \* history: ids that removeBook has saved the list without
    player,             \* the player screen's React state and refs
    bookInfo,           \* route.params.bookInfo of the player screen
    playerHistory,      \* history: seconds counted, time since a commit, its kind
    storeHistory,       \* history: the store calls that returned, and whether two overlapped
    utterance,          \* the text handed to startSpeech and what Speech.speak got of it
    tooLargeShown,      \* history: how often the alert "Arquivo Muito Grande" was shown
    pageFit             \* the player's layouts, scale and offsets of the page

history == << removeAsked, removedMidFetch, failedAt, onesReported, awaitingRetry,
             removedPersisted >>

playerVars == << player, bookInfo, playerHistory >>

contractVars == << storeHistory, utterance, tooLargeShown, pageFit >>

vars == << storedLibrary, bookFiles, pdfFiles, processingControl, library, progress,
           isUploading, effectPending, tasks, nextId, playerBook, events,
           removeAsked, removedMidFetch, failedAt, onesReported, awaitingRetry,
           removedPersisted, player, bookInfo, playerHistory, storeHistory, utterance,
           tooLargeShown, pageFit >>

\* ------------------------------------------------------------ data helpers
NoFile == [exists |-> FALSE, pages |-> << >>]
NoRatio == << >>
EmptyProgress == [d \in Docs |-> NoRatio]

\* pages?.length || 0   (loadBookPages returns null when the file is missing)
PageCount(file) == IF file.exists THEN Len(file.pages) ELSE 0

\* a / b kept as the pair <<a, b>>
Ratio(a, b) == << a, b >>

HasBook(lib, id) == \E i \in DOMAIN lib : lib[i].id_arquivo = id

BookOf(lib, id) == lib[CHOOSE i \in DOMAIN lib : lib[i].id_arquivo = id]

\* library.find(book => book.status === 'processing'): index of the first one, 0 if none
FirstProcessing(lib) ==
    IF \E i \in DOMAIN lib : lib[i].status = "processing"
    THEN CHOOSE i \in DOMAIN lib :
            /\ lib[i].status = "processing"
            /\ \A j \in 1..(i - 1) : lib[j].status # "processing"
    ELSE 0

\* ------------------------------------------------------- libraryManager.js
\* a new entry that is already ready
NewBookReady(id, total) ==
    [ id_arquivo |-> id, total_paginas |-> total, status |-> "ready",
      lastPosition |-> 0, listeningTime |-> 0, completed |-> FALSE,
      bookmarks |-> << >>, annotations |-> << >>, localUri |-> TRUE ]

NewBook(id, total) ==
    [ id_arquivo |-> id, total_paginas |-> total, status |-> "processing",
      lastPosition |-> 0, listeningTime |-> 0, completed |-> FALSE,
      bookmarks |-> << >>, annotations |-> << >>, localUri |-> TRUE ]

\* saveBook: the list it hands to saveLibrary (unchanged when the id is present)
SaveBookList(lib, id, total) ==
    IF HasBook(lib, id) THEN lib ELSE Append(lib, NewBook(id, total))

\* updateBookStatus that also takes the entry back to its first page
UpdateBookStatusListRewinds(lib, id, status) ==
    [i \in DOMAIN lib |->
        IF lib[i].id_arquivo = id
        THEN [lib[i] EXCEPT !.status = status, !.lastPosition = 0]
        ELSE lib[i]]

\* updateBookStatus: library.map(...) handed to saveLibrary
UpdateBookStatusList(lib, id, status) ==
    [i \in DOMAIN lib |->
        IF lib[i].id_arquivo = id THEN [lib[i] EXCEPT !.status = status] ELSE lib[i]]

\* removeBook that keeps the list as it is
RemoveBookListKeeps(lib, id) == lib

\* removeBook: library.filter(book => book.id_arquivo !== bookId)
RemoveBookList(lib, id) == SelectSeq(lib, LAMBDA b : b.id_arquivo # id)

\* updateBookState whose completed flag is that of the page alone
UpdateBookStateListForgets(lib, id, pageIndex, timeIncrement) ==
    [i \in DOMAIN lib |->
        IF lib[i].id_arquivo = id
        THEN [lib[i] EXCEPT !.lastPosition = pageIndex,
                            !.listeningTime = lib[i].listeningTime + timeIncrement,
                            !.completed = pageIndex >= lib[i].total_paginas - 1]
        ELSE lib[i]]

\* updateBookState: library.map(...) handed to saveLibrary
UpdateBookStateList(lib, id, pageIndex, timeIncrement) ==
    [i \in DOMAIN lib |->
        IF lib[i].id_arquivo = id
        THEN [lib[i] EXCEPT !.lastPosition = pageIndex,
                            !.listeningTime = lib[i].listeningTime + timeIncrement,
                            !.completed = lib[i].completed
                                          \/ pageIndex >= lib[i].total_paginas - 1]
        ELSE lib[i]]

\* the new page put in front of the existing ones
AppendedPagesInFront(file, page) ==
    IF file.exists THEN << page >> \o file.pages ELSE << page >>

\* appendPageData: [...existingPages, newPageData], existingPages = loadBookPages() || []
AppendedPages(file, page) ==
    IF file.exists THEN Append(file.pages, page) ELSE << page >>

\* ------------------------------------------------------------------ tasks
\* kind: the async function in flight; pc: the await it is suspended at;
\* id, total: bookInfo.id_arquivo, bookInfo.total_paginas (or the bookId argument);
\* page: pageNumber; books, idx, prog: loadBooksFromStorage's books, loop position
\* and initialProgress; snap: the list about to be handed to saveLibrary;
\* pages: updatedPages about to be written; uri: bookToRemove?.localUri;
\* fault (history): a read or write inside appendPageData failed in this invocation
Task(kind, pc, id, total) ==
    [ kind |-> kind, pc |-> pc, id |-> id, total |-> total, page |-> 0,
      books |-> << >>, idx |-> 0, prog |-> EmptyProgress, snap |-> << >>,
      pages |-> << >>, uri |-> FALSE, fault |-> FALSE ]

ReloadTask == Task("reload", "load", 0, 0)
LoopTask(id, total) == Task("loop", "start", id, total)
AddTask == Task("add", "upload", 0, 0)
RemoveTask(id) == Task("remove", "load", id, 0)
RetryTask(id) == Task("retry", "load", id, 0)
\* updateBookState(id, pageIndex, timeIncrement): page holds pageIndex, idx timeIncrement
StateTask(id, pageIndex, timeIncrement) ==
    [Task("state", "load", id, 0) EXCEPT !.page = pageIndex, !.idx = timeIncrement]

Running == BagToSet(tasks)
Without(t) == tasks (-) SetToBag({t})
Become(t, t2) == Without(t) (+) SetToBag({t2})
CountKind(kind) ==
    LET S == {t \in Running : t.kind = kind}
    IN  BagCardinality([t \in S |-> tasks[t]])
ActiveLoops(id) ==
    LET S == {t \in Running : t.kind = "loop" /\ t.id = id}
    IN  BagCardinality([t \in S |-> tasks[t]])

\* a call of loadBooksFromStorage() can be issued
CanReload == CountKind("reload") < MaxReloads

\* ============================================================ player screen
\* The player screen (part_000) on one opened book. Time is counted in steps of
\* DeferDelay; a timer whose delay has run out fires before time goes on.
\* isPlayingRef is kept equal to isPlaying (its effect runs with the render).
Texts == {"words", "spaces", "empty"}   \* texto_completo: speakable, blank, ''

MIN_PAGE_CHANGE_INTERVAL == 900
DeferDelay == 150

MinOf(a, b) == IF a < b THEN a ELSE b

NoNav ==
    [ on |-> FALSE, deltaOrIndex |-> 0, absolute |-> FALSE, continueSpeech |-> FALSE,
      left |-> 0, deferred |-> FALSE ]

NoSpeech == [ on |-> FALSE, page |-> 0, loading |-> FALSE, from |-> 0 ]

NoBook == [ id_arquivo |-> 0, total_paginas |-> 0, pagesData |-> << >> ]

\* the component's state and refs right after it is mounted on bookInfo
MountedPlayer(lastPosition) ==
    [ focused |-> TRUE,
      currentPageIndex |-> lastPosition,
      pageData |-> -1,
      isPlaying |-> FALSE,
      currentWordIndex |-> -1,
      isPageLoading |-> TRUE,
      timeListened |-> 0,
      timerOn |-> FALSE,
      navLock |-> FALSE,
      lockLeft |-> 0,
      sinceChange |-> MIN_PAGE_CHANGE_INTERVAL,
      pendingNav |-> NoNav,
      speech |-> NoSpeech,
      effectsPending |-> TRUE,
      focusPage |-> lastPosition ]

NoPlayer == [MountedPlayer(0) EXCEPT !.focused = FALSE, !.effectsPending = FALSE]

NoPlayerHistory ==
    [ secondsCounted |-> 0, sinceCommit |-> MIN_PAGE_CHANGE_INTERVAL,
      continuing |-> FALSE, newestPending |-> FALSE ]

\* no store call has returned yet
NoStoreHistory == [ log |-> << >>, overlapped |-> FALSE ]

\* Speech.speak has not been called
\* a number m * 2^e with 2^(MantissaBits-1) <= |m| < 2^MantissaBits, or 0
Zero == [ m |-> 0, e |-> 0 ]
One == [ m |-> 2 ^ (MantissaBits - 1), e |-> 1 - MantissaBits ]

\* the useState values of pdfLayout, containerLayout, pdfScale, pdfOffsets and
\* isPageLoading; effectDue: the scale effect has to run; fitted (history): scale
\* and offsets were computed from the layouts as they are now
NoPageFit ==
    [ pdfLayout |-> [ width |-> 1, height |-> 1 ],
      containerLayout |-> [ width |-> 0, height |-> 0 ],
      pdfScale |-> One, pdfOffsets |-> [ top |-> Zero, left |-> Zero ],
      isPageLoading |-> TRUE, effectDue |-> TRUE, fitted |-> FALSE ]

NoUtterance ==
    [ on |-> FALSE, textToSpeak |-> << >>, startIndex |-> 0, textSegment |-> << >>,
      charIndex |-> -1, currentWordIndex |-> -1 ]

\* bookInfo.pagesData[i]?.texto_completo; pagesData holds the pages fetched so far
HasPage(i) == i >= 0 /\ i < Len(bookInfo.pagesData)
TextOf(i) == bookInfo.pagesData[i + 1]

\* stopTimer that leaves the interval running
stopTimerKeepsRunning(p) == p

\* stopTimer: clearInterval, intervalRef.current = null
stopTimer(p) == [p EXCEPT !.timerOn = FALSE]

startTimer(p) == [p EXCEPT !.timerOn = TRUE]

\* safeGoTo without the pause of a change that does not continue playback
safeGoToKeepsPlaying(p, deltaOrIndex, absolute, continueSpeech) ==
    IF p.navLock
    THEN p
    ELSE LET target == IF absolute THEN deltaOrIndex
                       ELSE p.currentPageIndex + deltaOrIndex
         IN  [p EXCEPT !.navLock = TRUE,
                       !.lockLeft = MIN_PAGE_CHANGE_INTERVAL,
                       !.isPageLoading = TRUE,
                       !.speech = NoSpeech,
                       !.currentWordIndex = -1,
                       !.currentPageIndex = target,
                       !.effectsPending = @ \/ target # p.currentPageIndex]

\* a safeGoTo that commits whether the lock is held or not
safeGoToWithoutLock(p, deltaOrIndex, absolute, continueSpeech) ==
    LET target == IF absolute THEN deltaOrIndex ELSE p.currentPageIndex + deltaOrIndex
        q == [p EXCEPT !.navLock = TRUE,
                       !.lockLeft = MIN_PAGE_CHANGE_INTERVAL,
                       !.isPageLoading = TRUE,
                       !.speech = NoSpeech,
                       !.currentWordIndex = -1,
                       !.currentPageIndex = target,
                       !.effectsPending = @ \/ target # p.currentPageIndex]
    IN  IF continueSpeech THEN q ELSE stopTimer([q EXCEPT !.isPlaying = FALSE])

\* safeGoTo: nothing when the lock is held; else lock, loading, Speech.stop(),
\* pause unless continuing, word index -1, page index, lock released after the interval
safeGoTo(p, deltaOrIndex, absolute, continueSpeech) ==
    IF p.navLock
    THEN p
    ELSE LET target == IF absolute THEN deltaOrIndex
                       ELSE p.currentPageIndex + deltaOrIndex
             q == [p EXCEPT !.navLock = TRUE,
                            !.lockLeft = MIN_PAGE_CHANGE_INTERVAL,
                            !.isPageLoading = TRUE,
                            !.speech = NoSpeech,
                            !.currentWordIndex = -1,
                            !.currentPageIndex = target,
                            !.effectsPending = @ \/ target # p.currentPageIndex]
         IN  IF continueSpeech THEN q ELSE stopTimer([q EXCEPT !.isPlaying = FALSE])

\* schedule(delayMs) inside throttledGoTo: one pending timeout, the newest request
schedule(p, delayMs, deltaOrIndex, absolute, continueSpeech, deferred) ==
    [p EXCEPT !.pendingNav =
        [ on |-> TRUE, deltaOrIndex |-> deltaOrIndex, absolute |-> absolute,
          continueSpeech |-> continueSpeech,
          left |-> IF delayMs > 0 THEN delayMs ELSE 0, deferred |-> deferred ]]

\* throttledGoTo as the callback of a render whose isPageLoading was `loading`
throttledGoTo(p, loading, deltaOrIndex, absolute, continueSpeech) ==
    IF loading \/ p.navLock
    THEN schedule(p, DeferDelay, deltaOrIndex, absolute, continueSpeech, TRUE)
    ELSE IF p.sinceChange >= MIN_PAGE_CHANGE_INTERVAL
         THEN safeGoTo([p EXCEPT !.sinceChange = 0], deltaOrIndex, absolute,
                       continueSpeech)
         ELSE schedule(p, MIN_PAGE_CHANGE_INTERVAL - p.sinceChange, deltaOrIndex,
                       absolute, continueSpeech, FALSE)

\* startSpeech as the callback of a render whose isPageLoading was `loading`:
\* the utterance keeps that render's currentPageIndex and throttledGoTo
startSpeech(p, text, fromWordIndex, loading) ==
    IF text # "words"
    THEN [p EXCEPT !.isPlaying = FALSE]
    ELSE [p EXCEPT !.speech =
            [ on |-> TRUE, page |-> p.currentPageIndex, loading |-> loading,
              from |-> IF fromWordIndex >= 0 THEN fromWordIndex ELSE 0 ]]

handlePlayPause(p) ==
    IF p.isPlaying
    THEN stopTimer([p EXCEPT !.speech = NoSpeech, !.isPlaying = FALSE])
    ELSE IF p.pageData # -1 /\ TextOf(p.pageData) # "empty"
         THEN startTimer(startSpeech([p EXCEPT !.isPlaying = TRUE], TextOf(p.pageData),
                                     p.currentWordIndex, p.isPageLoading))
         ELSE p

\* onDone of the utterance p.speech
onDone(p) ==
    LET q == [p EXCEPT !.speech = NoSpeech]
    IN  IF ~p.isPlaying
        THEN q
        ELSE IF p.speech.page < bookInfo.total_paginas - 1
             THEN throttledGoTo(q, p.speech.loading, 1, FALSE, TRUE)
             ELSE stopTimer([q EXCEPT !.isPlaying = FALSE, !.currentWordIndex = -1])

\* onError of the utterance p.speech
onError(p) == stopTimer([p EXCEPT !.speech = NoSpeech, !.isPlaying = FALSE])

\* the cleanup of the focus effect: Speech.stop(), stopTimer(), accumulator zeroed
\* (its updateBookState call is issued by the action that runs the cleanup)
focusCleanup(p) ==
    stopTimer([p EXCEPT !.speech = NoSpeech, !.timeListened = 0])

\* the effects on [currentPageIndex] and the renders they cause: page data, layout,
\* scale (loading ends), and the continuation of speech on [pageData]
pageEffects(p) ==
    LET q == [p EXCEPT !.isPageLoading = TRUE]
    IN  IF HasPage(p.currentPageIndex)
        THEN LET r == [q EXCEPT !.pageData = p.currentPageIndex,
                                !.currentWordIndex = -1,
                                !.isPageLoading = FALSE]
             IN  IF p.isPlaying /\ TextOf(p.currentPageIndex) # "empty"
                 THEN startSpeech(r, TextOf(p.currentPageIndex), 0, TRUE)
                 ELSE r
        ELSE q

Init ==
    /\ storedLibrary = << >>
    /\ bookFiles = [d \in Docs |-> NoFile]
    /\ pdfFiles = {}
    /\ processingControl = {}
    /\ library = << >>
    /\ progress = EmptyProgress
    /\ isUploading = FALSE
    /\ effectPending = FALSE
    /\ tasks = SetToBag({ReloadTask})
    /\ nextId = 1
    /\ playerBook = 0
    /\ events = 0
    /\ removeAsked = {}
    /\ removedMidFetch = {}
    /\ failedAt = [d \in Docs |-> 0]
    /\ onesReported = [d \in Docs |-> 0]
    /\ awaitingRetry = {}
    /\ removedPersisted = {}
    /\ player = NoPlayer
    /\ bookInfo = NoBook
    /\ playerHistory = NoPlayerHistory
    /\ storeHistory = NoStoreHistory
    /\ utterance = NoUtterance
    /\ tooLargeShown = 0
    /\ pageFit = NoPageFit

\* ------------------------------------- LibraryScreen.js: loadBooksFromStorage
\* the for loop's next book with status processing or ready, from index `from`; 0 if none
NextEligible(books, from) ==
    IF \E i \in from..Len(books) : books[i].status \in {"processing", "ready"}
    THEN CHOOSE i \in from..Len(books) :
            /\ books[i].status \in {"processing", "ready"}
            /\ \A j \in from..(i - 1) : books[j].status \notin {"processing", "ready"}
    ELSE 0

\* the for loop goes on from index `from`: it suspends at the next loadBookPages,
\* or ends with setProgress(initialProgress)
ReloadContinue(t, books, prog, from) ==
    LET i == NextEligible(books, from)
    IN  IF i = 0
        THEN /\ progress' = prog
             /\ tasks' = Without(t)
        ELSE /\ progress' = progress
             /\ tasks' = Become(t, [t EXCEPT !.pc = "pages", !.books = books,
                                             !.idx = i, !.prog = prog, !.snap = << >>])

\* await loadLibrary() resolves; setLibrary(books)
\* (React runs the effects of one render before it renders again)
ReloadLoad(t) ==
    /\ t.kind = "reload" /\ t.pc = "load"
    /\ ~effectPending
    /\ library' = storedLibrary
    /\ effectPending' = TRUE
    /\ ReloadContinue(t, storedLibrary, EmptyProgress, 1)
    /\ UNCHANGED << storedLibrary, bookFiles, pdfFiles, processingControl, isUploading,
                    nextId, playerBook, events, history >>
    /\ UNCHANGED playerVars
    /\ UNCHANGED contractVars

\* await loadBookPages(book.id_arquivo) resolves
ReloadPages(t) ==
    /\ t.kind = "reload" /\ t.pc = "pages"
    /\ LET book == t.books[t.idx]
           pageCount == PageCount(bookFiles[book.id_arquivo])
           prog == IF book.total_paginas > 0
                   THEN [t.prog EXCEPT ![book.id_arquivo] =
                                            Ratio(pageCount, book.total_paginas)]
                   ELSE t.prog
       IN  IF book.status = "processing" /\ pageCount = book.total_paginas
           THEN /\ tasks' = Become(t, [t EXCEPT !.pc = "statusLoad", !.prog = prog])
                /\ progress' = progress
           ELSE ReloadContinue(t, t.books, prog, t.idx + 1)
    /\ UNCHANGED << storedLibrary, bookFiles, pdfFiles, processingControl, library,
                    isUploading, effectPending, nextId, playerBook, events, history >>
    /\ UNCHANGED playerVars
    /\ UNCHANGED contractVars

\* updateBookStatus(book.id_arquivo, 'ready'): its loadLibrary resolves
ReloadStatusLoad(t) ==
    /\ t.kind = "reload" /\ t.pc = "statusLoad"
    /\ tasks' = Become(t, [t EXCEPT !.pc = "statusSave",
            !.snap = UpdateBookStatusList(storedLibrary, t.books[t.idx].id_arquivo, "ready")])
    /\ UNCHANGED << storedLibrary, bookFiles, pdfFiles, processingControl, library,
                    progress, isUploading, effectPending, nextId, playerBook, events, history >>
    /\ UNCHANGED playerVars
    /\ UNCHANGED contractVars

\* updateBookStatus(book.id_arquivo, 'ready'): its saveLibrary resolves
ReloadStatusSave(t) ==
    /\ t.kind = "reload" /\ t.pc = "statusSave"
    /\ storedLibrary' = t.snap
    /\ ReloadContinue(t, t.books, t.prog, t.idx + 1)
    /\ UNCHANGED << bookFiles, pdfFiles, processingControl, library, isUploading,
                    effectPending, nextId, playerBook, events, history >>
    /\ UNCHANGED playerVars
    /\ UNCHANGED contractVars

\* --------------------------------------- LibraryScreen.js: pendingBook effect
\* useEffect(..., [library, processBookPages]) with the synchronous head of
\* processBookPages (marker check and set)
PendingBookEffect ==
    /\ effectPending
    /\ effectPending' = FALSE
    /\ LET i == FirstProcessing(library)
       IN  IF i # 0 /\ library[i].id_arquivo \notin processingControl
           THEN /\ processingControl' = processingControl \cup {library[i].id_arquivo}
                /\ tasks' = tasks (+) SetToBag({LoopTask(library[i].id_arquivo,
                                                         library[i].total_paginas)})
           ELSE UNCHANGED << processingControl, tasks, playerBook >>
    /\ UNCHANGED << storedLibrary, bookFiles, pdfFiles, library, progress, isUploading,
                    nextId, playerBook, events, history >>
    /\ UNCHANGED playerVars
    /\ UNCHANGED contractVars

\* ------------------------------------------ LibraryScreen.js: processBookPages
\* a processPage that asks for page p whatever the total
EnterProcessPageOnward(t, p) ==
    [t EXCEPT !.pc = "exists", !.page = p, !.pages = << >>]

\* processPage(p) up to its first await
EnterProcessPage(t, p) ==
    IF p > t.total
    THEN [t EXCEPT !.pc = "readyLoad", !.page = p, !.pages = << >>]
    ELSE [t EXCEPT !.pc = "exists", !.page = p, !.pages = << >>]

\* await loadBookPages(bookInfo.id_arquivo) resolves; processPage(startPage)
LoopStart(t) ==
    /\ t.kind = "loop" /\ t.pc = "start"
    /\ tasks' = Become(t, EnterProcessPage(t, PageCount(bookFiles[t.id]) + 1))
    /\ UNCHANGED << storedLibrary, bookFiles, pdfFiles, processingControl, library,
                    progress, isUploading, effectPending, nextId, playerBook, events, history >>
    /\ UNCHANGED playerVars
    /\ UNCHANGED contractVars

\* await loadLibrary() resolves: the existence check, then axios.post is issued
LoopExists(t) ==
    /\ t.kind = "loop" /\ t.pc = "exists"
    /\ IF HasBook(storedLibrary, t.id)
       THEN /\ tasks' = Become(t, [t EXCEPT !.pc = "fetch"])
            /\ processingControl' = processingControl
       ELSE /\ tasks' = Without(t)
            /\ processingControl' = processingControl \ {t.id}
    /\ UNCHANGED << storedLibrary, bookFiles, pdfFiles, library, progress, isUploading,
                    effectPending, nextId, playerBook, events, history >>
    /\ UNCHANGED playerVars
    /\ UNCHANGED contractVars

\* axios.post answers.  Status 'sucesso': appendPageData is entered and its
\* loadBookPages resolves (updatedPages is built, writeAsStringAsync is issued).
\* Otherwise (a throw, a timeout, another status) the catch block is entered and the
\* loadLibrary of updateBookStatus(id, 'failed') resolves.
LoopFetch(t) ==
    /\ t.kind = "loop" /\ t.pc = "fetch"
    /\ \/ tasks' = Become(t, [t EXCEPT !.pc = "appendWrite",
                                       !.pages = AppendedPages(bookFiles[t.id], t.page)])
       \/ tasks' = Become(t, [t EXCEPT !.pc = "failedSave",
                        !.snap = UpdateBookStatusList(storedLibrary, t.id, "failed")])
    /\ UNCHANGED << storedLibrary, bookFiles, pdfFiles, processingControl, library,
                    progress, isUploading, effectPending, nextId, playerBook, events, history >>
    /\ UNCHANGED playerVars
    /\ UNCHANGED contractVars

\* appendPageData: writeAsStringAsync resolves and the new length is returned;
\* setProgress; setTimeout(() => processPage(pageNumber + 1), 10) fires
LoopAppendWrite(t) ==
    /\ t.kind = "loop" /\ t.pc = "appendWrite"
    /\ bookFiles' = [bookFiles EXCEPT ![t.id] = [exists |-> TRUE, pages |-> t.pages]]
    /\ progress' = [progress EXCEPT ![t.id] = Ratio(Len(t.pages), t.total)]
    /\ tasks' = Become(t, EnterProcessPage(t, t.page + 1))
    /\ failedAt' = [failedAt EXCEPT ![t.id] = 0]
    /\ onesReported' = [onesReported EXCEPT
                            ![t.id] = IF Len(t.pages) = t.total THEN @ + 1 ELSE @]
    /\ UNCHANGED << storedLibrary, pdfFiles, processingControl, library, isUploading,
                    effectPending, nextId, playerBook, events, removeAsked,
                    removedMidFetch, awaitingRetry, removedPersisted >>
    /\ UNCHANGED playerVars
    /\ UNCHANGED contractVars

\* updateBookStatus(id, 'ready'): its loadLibrary resolves
LoopReadyLoad(t) ==
    /\ t.kind = "loop" /\ t.pc = "readyLoad"
    /\ tasks' = Become(t, [t EXCEPT !.pc = "readySave",
                        !.snap = UpdateBookStatusList(storedLibrary, t.id, "ready")])
    /\ UNCHANGED << storedLibrary, bookFiles, pdfFiles, processingControl, library,
                    progress, isUploading, effectPending, nextId, playerBook, events, history >>
    /\ UNCHANGED playerVars
    /\ UNCHANGED contractVars

\* updateBookStatus(id, 'ready' | 'failed'): its saveLibrary resolves;
\* delete processingControl[id]; loadBooksFromStorage()
LoopStatusSave(t) ==
    /\ t.kind = "loop" /\ t.pc \in {"readySave", "failedSave"}
    /\ CanReload
    /\ storedLibrary' = t.snap
    /\ processingControl' = processingControl \ {t.id}
    /\ tasks' = Become(t, ReloadTask)
    /\ failedAt' = IF t.pc = "failedSave" /\ ~t.fault
                   THEN [failedAt EXCEPT ![t.id] = t.page] ELSE failedAt
    /\ awaitingRetry' = IF t.pc = "failedSave" /\ HasBook(t.snap, t.id)
                        THEN awaitingRetry \cup {t.id} ELSE awaitingRetry
    /\ UNCHANGED << bookFiles, pdfFiles, library, progress, isUploading, effectPending,
                    nextId, playerBook, events, removeAsked, removedMidFetch,
                    onesReported, removedPersisted >>
    /\ UNCHANGED playerVars
    /\ UNCHANGED contractVars

\* ---------------------------------------- LibraryScreen.js: handleDocumentPick
MAX_FILE_SIZE_MB == 30
MAX_FILE_SIZE_BYTES == MAX_FILE_SIZE_MB * 1024 * 1024

\* file.size of the picked file: at the limit, one byte more, and a small file
FileSizes == {1, MAX_FILE_SIZE_BYTES, MAX_FILE_SIZE_BYTES + 1}

\* a size check that lets every file pass
NeverTooLarge(size) == FALSE

\* file.size > MAX_FILE_SIZE_BYTES
TooLarge(size) == size > MAX_FILE_SIZE_BYTES

\* the '+' button (disabled while uploading or while a listed book is processing)
\* and a file of `size` bytes is picked. Too large: the alert is shown and the
\* handler returns. Else setIsUploading(true) and the upload is issued
PickDocument(size) ==
    /\ playerBook = 0
    /\ ~isUploading
    /\ FirstProcessing(library) = 0
    /\ IF TooLarge(size)
       THEN /\ tooLargeShown < MaxTooLarge /\ events < MaxEvents
            /\ tooLargeShown' = tooLargeShown + 1
            /\ events' = events + 1
            /\ UNCHANGED << isUploading, tasks >>
       ELSE /\ nextId <= NumDocs
            /\ isUploading' = TRUE
            /\ tasks' = tasks (+) SetToBag({AddTask})
            /\ UNCHANGED << tooLargeShown, events >>
    /\ UNCHANGED << storedLibrary, bookFiles, pdfFiles, processingControl, library,
                    progress, effectPending, nextId, playerBook, history >>
    /\ UNCHANGED playerVars
    /\ UNCHANGED << storeHistory, utterance, pageFit >>

\* the tail of handleDocumentPick after saveBook: setProgress, loadBooksFromStorage(),
\* finally setIsUploading(false)
AddFinish(t, id, total) ==
    /\ CanReload
    /\ progress' = [progress EXCEPT ![id] = Ratio(0, total)]
    /\ isUploading' = FALSE
    /\ tasks' = Become(t, ReloadTask)

\* /iniciar_processamento throws: alert, setIsUploading(false).  Or it answers
\* { id_arquivo, total_paginas }, the file is copied to localUri, saveBook is entered
\* and its loadLibrary resolves: a new id is pushed and saveLibrary is issued
AddUpload(t) ==
    /\ t.kind = "add" /\ t.pc = "upload"
    /\ \/ /\ isUploading' = FALSE
          /\ tasks' = Without(t)
          /\ UNCHANGED << pdfFiles, nextId, playerBook, progress >>
       \/ \E total \in 1..MaxPages :
             /\ nextId' = nextId + 1
             /\ pdfFiles' = pdfFiles \cup {nextId}
             /\ IF HasBook(storedLibrary, nextId)
                THEN AddFinish(t, nextId, total)
                ELSE /\ tasks' = Become(t, [t EXCEPT !.pc = "saveWrite", !.id = nextId,
                            !.total = total,
                            !.snap = SaveBookList(storedLibrary, nextId, total)])
                     /\ UNCHANGED << isUploading, progress, playerBook >>
    /\ UNCHANGED << storedLibrary, bookFiles, processingControl, library,
                    effectPending, events, playerBook, history >>
    /\ UNCHANGED playerVars
    /\ UNCHANGED contractVars

\* saveBook: saveLibrary resolves; the empty page file is about to be written
AddSaveWrite(t) ==
    /\ t.kind = "add" /\ t.pc = "saveWrite"
    /\ storedLibrary' = t.snap
    /\ tasks' = Become(t, [t EXCEPT !.pc = "saveFile", !.snap = << >>])
    /\ UNCHANGED << bookFiles, pdfFiles, processingControl, library, progress,
                    isUploading, effectPending, nextId, playerBook, events, history >>
    /\ UNCHANGED playerVars
    /\ UNCHANGED contractVars

\* saveBook: writeAsStringAsync(filePath, '[]') resolves; saveBook returns
AddSaveFile(t) ==
    /\ t.kind = "add" /\ t.pc = "saveFile"
    /\ bookFiles' = [bookFiles EXCEPT ![t.id] = [exists |-> TRUE, pages |-> << >>]]
    /\ AddFinish(t, t.id, t.total)
    /\ UNCHANGED << storedLibrary, pdfFiles, processingControl, library, effectPending,
                    nextId, playerBook, events, history >>
    /\ UNCHANGED playerVars
    /\ UNCHANGED contractVars

\* ------------------------------------------ LibraryScreen.js: handleRemoveBook
\* long press on a listed book, "Remover": delete processingControl[bookId];
\* removeBook(bookId) is entered
PressRemove(id) ==
    /\ playerBook = 0
    /\ events < MaxEvents
    /\ events' = events + 1
    /\ ~isUploading
    /\ HasBook(library, id)
    /\ \A t \in Running : ~(t.kind = "remove" /\ t.id = id)
    /\ processingControl' = processingControl \ {id}
    /\ tasks' = tasks (+) SetToBag({RemoveTask(id)})
    /\ removeAsked' = removeAsked \cup {id}
    /\ UNCHANGED << storedLibrary, bookFiles, pdfFiles, library, progress, isUploading,
                    effectPending, nextId, playerBook, removedMidFetch, failedAt,
                    onesReported, awaitingRetry, removedPersisted >>
    /\ UNCHANGED playerVars
    /\ UNCHANGED contractVars

\* removeBook: loadLibrary resolves; saveLibrary(newLibrary) is issued
RemoveLoad(t) ==
    /\ t.kind = "remove" /\ t.pc = "load"
    /\ tasks' = Become(t, [t EXCEPT !.pc = "save",
            !.snap = RemoveBookList(storedLibrary, t.id),
            !.uri = HasBook(storedLibrary, t.id) /\ BookOf(storedLibrary, t.id).localUri])
    /\ UNCHANGED << storedLibrary, bookFiles, pdfFiles, processingControl, library,
                    progress, isUploading, effectPending, nextId, playerBook, events, history >>
    /\ UNCHANGED playerVars
    /\ UNCHANGED contractVars

\* removeBook: saveLibrary resolves; deleteAsync(dataPath) is issued
RemoveSave(t) ==
    /\ t.kind = "remove" /\ t.pc = "save"
    /\ storedLibrary' = t.snap
    /\ tasks' = Become(t, [t EXCEPT !.pc = "deleteData", !.snap = << >>])
    /\ removedPersisted' = removedPersisted \cup {t.id}
    /\ awaitingRetry' = awaitingRetry \ {t.id}
    /\ UNCHANGED << bookFiles, pdfFiles, processingControl, library, progress,
                    isUploading, effectPending, nextId, playerBook, events,
                    removeAsked, removedMidFetch, failedAt, onesReported >>
    /\ UNCHANGED playerVars
    /\ UNCHANGED contractVars

\* removeBook: deleteAsync(dataPath) resolves, then deleteAsync(localUri) when the
\* entry had one; back in handleRemoveBook: setProgress, loadBooksFromStorage()
RemoveDelete(t) ==
    /\ t.kind = "remove" /\ t.pc = "deleteData"
    /\ CanReload
    /\ bookFiles' = [bookFiles EXCEPT ![t.id] = NoFile]
    /\ pdfFiles' = IF t.uri THEN pdfFiles \ {t.id} ELSE pdfFiles
    /\ progress' = [progress EXCEPT ![t.id] = NoRatio]
    /\ tasks' = Become(t, ReloadTask)
    /\ removedMidFetch' = IF \E l \in Running : l.kind = "loop" /\ l.id = t.id
                                                 /\ l.pc = "fetch"
                          THEN removedMidFetch \cup {t.id} ELSE removedMidFetch
    /\ failedAt' = [failedAt EXCEPT ![t.id] = 0]
    /\ UNCHANGED << storedLibrary, processingControl, library, isUploading,
                    effectPending, nextId, playerBook, events, removeAsked,
                    onesReported, awaitingRetry, removedPersisted >>
    /\ UNCHANGED playerVars
    /\ UNCHANGED contractVars

\* ----------------------------------- LibraryScreen.js: handlePressBook (retry)
\* press on a listed book shown as failed, "Tentar Novamente":
\* updateBookStatus(id, 'processing') is entered
PressRetry(id) ==
    /\ playerBook = 0
    /\ events < MaxEvents
    /\ events' = events + 1
    /\ ~isUploading
    /\ HasBook(library, id) /\ BookOf(library, id).status = "failed"
    /\ \A t \in Running : ~(t.kind = "retry" /\ t.id = id)
    /\ tasks' = tasks (+) SetToBag({RetryTask(id)})
    /\ UNCHANGED << storedLibrary, bookFiles, pdfFiles, processingControl, library,
                    progress, isUploading, effectPending, nextId, playerBook, history >>
    /\ UNCHANGED playerVars
    /\ UNCHANGED contractVars

\* updateBookStatus(id, 'processing'): its loadLibrary resolves
RetryLoad(t) ==
    /\ t.kind = "retry" /\ t.pc = "load"
    /\ tasks' = Become(t, [t EXCEPT !.pc = "save",
            !.snap = UpdateBookStatusList(storedLibrary, t.id, "processing")])
    /\ UNCHANGED << storedLibrary, bookFiles, pdfFiles, processingControl, library,
                    progress, isUploading, effectPending, nextId, playerBook, events, history >>
    /\ UNCHANGED playerVars
    /\ UNCHANGED contractVars

\* updateBookStatus(id, 'processing'): its saveLibrary resolves; loadBooksFromStorage()
RetrySave(t) ==
    /\ t.kind = "retry" /\ t.pc = "save"
    /\ CanReload
    /\ storedLibrary' = t.snap
    /\ tasks' = Become(t, ReloadTask)
    /\ awaitingRetry' = awaitingRetry \ {t.id}
    /\ UNCHANGED << bookFiles, pdfFiles, processingControl, library, progress,
                    isUploading, effectPending, nextId, playerBook, events,
                    removeAsked, removedMidFetch, failedAt, onesReported,
                    removedPersisted >>
    /\ UNCHANGED playerVars
    /\ UNCHANGED contractVars

\* --------------------------------------------------- the screen and the process
\* the library screen gains focus again: useEffect([isFocused]) calls loadBooksFromStorage
FocusReload ==
    /\ playerBook = 0
    /\ events < MaxEvents
    /\ events' = events + 1
    /\ CanReload
    /\ tasks' = tasks (+) SetToBag({ReloadTask})
    /\ UNCHANGED << storedLibrary, bookFiles, pdfFiles, processingControl, library,
                    progress, isUploading, effectPending, nextId, playerBook, history >>
    /\ UNCHANGED playerVars
    /\ UNCHANGED contractVars

\* handlePressBook on a listed book shown as ready or processing: loadBookPages
\* resolves with at least one page and the player screen is opened
OpenBook(id) ==
    /\ playerBook = 0
    /\ events < MaxEvents
    /\ events' = events + 1
    /\ ~isUploading
    /\ HasBook(library, id) /\ BookOf(library, id).status \in {"ready", "processing"}
    /\ PageCount(bookFiles[id]) > 0
    /\ playerBook' = id
    /\ UNCHANGED << storedLibrary, bookFiles, pdfFiles, processingControl, library,
                    progress, isUploading, effectPending, tasks, nextId, history >>
    /\ UNCHANGED playerVars
    /\ UNCHANGED contractVars

\* the player screen loses focus: its cleanup issues updateBookState(id,
\* currentPageIndex, timeListened); the library screen gains focus and reloads
LeavePlayer ==
    /\ playerBook # 0
    /\ events < MaxEvents
    /\ events' = events + 1
    /\ CanReload
    /\ playerBook' = 0
    /\ \E pageIndex \in 0..(MaxPages - 1), timeIncrement \in 0..MaxListen :
          /\ HasBook(library, playerBook)
                => pageIndex <= BookOf(library, playerBook).total_paginas - 1
          /\ tasks' = tasks (+) SetToBag({StateTask(playerBook, pageIndex, timeIncrement)})
                            (+) SetToBag({ReloadTask})
    /\ UNCHANGED << storedLibrary, bookFiles, pdfFiles, processingControl, library,
                    progress, isUploading, effectPending, nextId, history >>
    /\ UNCHANGED playerVars
    /\ UNCHANGED contractVars

\* updateBookState: its loadLibrary resolves
StateLoad(t) ==
    /\ t.kind = "state" /\ t.pc = "load"
    /\ tasks' = Become(t, [t EXCEPT !.pc = "save",
            !.snap = UpdateBookStateList(storedLibrary, t.id, t.page, t.idx)])
    /\ UNCHANGED << storedLibrary, bookFiles, pdfFiles, processingControl, library,
                    progress, isUploading, effectPending, nextId, playerBook, events, history >>
    /\ UNCHANGED playerVars
    /\ UNCHANGED contractVars

\* updateBookState: its saveLibrary resolves
StateSave(t) ==
    /\ t.kind = "state" /\ t.pc = "save"
    /\ storedLibrary' = t.snap
    /\ tasks' = Without(t)
    /\ UNCHANGED << bookFiles, pdfFiles, processingControl, library, progress,
                    isUploading, effectPending, nextId, playerBook, events, history >>
    /\ UNCHANGED playerVars
    /\ UNCHANGED contractVars

\* the process is killed and started again: every call chain in flight and all
\* in-memory state is gone, the persisted list and the files stay; the screen mounts
Restart ==
    /\ events < MaxEvents
    /\ events' = events + 1
    /\ processingControl' = {}
    /\ library' = << >>
    /\ progress' = EmptyProgress
    /\ isUploading' = FALSE
    /\ effectPending' = FALSE
    /\ playerBook' = 0
    /\ tasks' = SetToBag({ReloadTask})
    /\ UNCHANGED << storedLibrary, bookFiles, pdfFiles, nextId, history >>
    /\ UNCHANGED playerVars
    /\ UNCHANGED contractVars

\* ------------------------------------------------- storage faults (SpecFault)
\* appendPageData, the fetch having answered 'sucesso': loadBookPages cannot read the
\* page file, logs the error and returns null, so existingPages is []
LoopFetchReadFault(t) ==
    /\ t.kind = "loop" /\ t.pc = "fetch"
    /\ events < MaxEvents
    /\ events' = events + 1
    /\ bookFiles[t.id].exists
    /\ tasks' = Become(t, [t EXCEPT !.pc = "appendWrite", !.pages = << t.page >>,
                                    !.fault = TRUE])
    /\ UNCHANGED << storedLibrary, bookFiles, pdfFiles, processingControl, library,
                    progress, isUploading, effectPending, nextId, playerBook, history >>
    /\ UNCHANGED playerVars
    /\ UNCHANGED contractVars

\* appendPageData: makeDirectoryAsync, which is outside the try block, throws; the
\* catch block of processPage is entered and the loadLibrary of
\* updateBookStatus(id, 'failed') resolves
LoopFetchMkdirFault(t) ==
    /\ t.kind = "loop" /\ t.pc = "fetch"
    /\ events < MaxEvents
    /\ events' = events + 1
    /\ tasks' = Become(t, [t EXCEPT !.pc = "failedSave", !.fault = TRUE,
                        !.snap = UpdateBookStatusList(storedLibrary, t.id, "failed")])
    /\ UNCHANGED << storedLibrary, bookFiles, pdfFiles, processingControl, library,
                    progress, isUploading, effectPending, nextId, playerBook, history >>
    /\ UNCHANGED playerVars
    /\ UNCHANGED contractVars

\* appendPageData: writeAsStringAsync throws; the catch logs the error and returns 0;
\* setProgress(0 / total); setTimeout(() => processPage(pageNumber + 1), 10) fires
LoopAppendWriteFault(t) ==
    /\ t.kind = "loop" /\ t.pc = "appendWrite"
    /\ events < MaxEvents
    /\ events' = events + 1
    /\ progress' = [progress EXCEPT ![t.id] = Ratio(0, t.total)]
    /\ tasks' = Become(t, [EnterProcessPage(t, t.page + 1) EXCEPT !.fault = TRUE])
    /\ UNCHANGED << storedLibrary, bookFiles, pdfFiles, processingControl, library,
                    isUploading, effectPending, nextId, playerBook, history >>
    /\ UNCHANGED playerVars
    /\ UNCHANGED contractVars

Next ==
    \/ \E t \in Running : ReloadLoad(t)
    \/ \E t \in Running : ReloadPages(t)
    \/ \E t \in Running : ReloadStatusLoad(t)
    \/ \E t \in Running : ReloadStatusSave(t)
    \/ PendingBookEffect
    \/ \E t \in Running : LoopStart(t)
    \/ \E t \in Running : LoopExists(t)
    \/ \E t \in Running : LoopFetch(t)
    \/ \E t \in Running : LoopAppendWrite(t)
    \/ \E t \in Running : LoopReadyLoad(t)
    \/ \E t \in Running : LoopStatusSave(t)
    \/ \E size \in FileSizes : PickDocument(size)
    \/ \E t \in Running : AddUpload(t)
    \/ \E t \in Running : AddSaveWrite(t)
    \/ \E t \in Running : AddSaveFile(t)
    \/ \E id \in Docs : PressRemove(id)
    \/ \E t \in Running : RemoveLoad(t)
    \/ \E t \in Running : RemoveSave(t)
    \/ \E t \in Running : RemoveDelete(t)
    \/ \E id \in Docs : PressRetry(id)
    \/ \E t \in Running : RetryLoad(t)
    \/ \E t \in Running : RetrySave(t)
    \/ \E id \in Docs : OpenBook(id)
    \/ LeavePlayer
    \/ \E t \in Running : StateLoad(t)
    \/ \E t \in Running : StateSave(t)
    \/ FocusReload
    \/ Restart

Spec == Init /\ [][Next]_vars

\* the same program on a storage whose file reads and writes can fail
NextFault ==
    \/ Next
    \/ \E t \in Running : LoopFetchReadFault(t)
    \/ \E t \in Running : LoopFetchMkdirFault(t)
    \/ \E t \in Running : LoopAppendWriteFault(t)

SpecFault == Init /\ [][NextFault]_vars

\* p2 is p after a handler ran: safeGoTo committed a page change iff the lock was taken
Commits(p, p2) == ~p.navLock /\ p2.navLock

\* history of the player kept by a handler that got the request (deltaOrIndex,
\* absolute, continueSpeech): the time since the last commit, whether that commit
\* continues playback, and whether the pending timeout holds the newest request
AfterRequest(h, p, p2, continueSpeech) ==
    IF Commits(p, p2)
    THEN [h EXCEPT !.sinceCommit = 0, !.continuing = continueSpeech,
                   !.newestPending = FALSE]
    ELSE [h EXCEPT !.newestPending = p2.pendingNav.on]

\* the same when the pending timeout fired
AfterTimeout(h, p, p2) ==
    IF Commits(p, p2)
    THEN [h EXCEPT !.sinceCommit = 0, !.continuing = p.pendingNav.continueSpeech,
                   !.newestPending = FALSE]
    ELSE [h EXCEPT !.newestPending = FALSE]

PlayerBusy == player.focused /\ ~player.effectsPending

LibraryUnchanged ==
    UNCHANGED << bookFiles, pdfFiles, processingControl, library, progress, isUploading,
                 effectPending, nextId, playerBook, events, history, contractVars >>

\* ---------------------------------------------------------- player actions
\* the passive effects after a mount or a change of currentPageIndex
PlayerEffects ==
    /\ player.focused /\ player.effectsPending
    /\ LET p == [player EXCEPT !.effectsPending = FALSE,
                               !.focusPage = player.currentPageIndex]
       IN  IF player.focusPage # player.currentPageIndex
           THEN /\ CountKind("state") < MaxStateCalls
                /\ tasks' = tasks (+) SetToBag({StateTask(bookInfo.id_arquivo,
                                        player.focusPage, player.timeListened)})
                /\ player' = pageEffects(focusCleanup(p))
           ELSE /\ tasks' = tasks
                /\ player' = pageEffects(p)
    /\ playerHistory' = [playerHistory EXCEPT !.continuing = FALSE]
    /\ UNCHANGED << storedLibrary, bookInfo >>
    /\ LibraryUnchanged

PressPlayPause ==
    /\ player.focused
    /\ player' = handlePlayPause(player)
    /\ player' # player
    /\ UNCHANGED << storedLibrary, tasks, bookInfo, playerHistory >>
    /\ LibraryUnchanged

\* handleNext
PressNext ==
    /\ player.focused
    /\ ~player.isPageLoading
    /\ player.currentPageIndex < bookInfo.total_paginas - 1
    /\ player' = throttledGoTo(player, player.isPageLoading, 1, FALSE, FALSE)
    /\ playerHistory' = AfterRequest(playerHistory, player, player', FALSE)
    /\ UNCHANGED << storedLibrary, tasks, bookInfo >>
    /\ LibraryUnchanged

\* handlePrevious
PressPrevious ==
    /\ player.focused
    /\ ~player.isPageLoading
    /\ player.currentPageIndex > 0
    /\ player' = throttledGoTo(player, player.isPageLoading, -1, FALSE, FALSE)
    /\ playerHistory' = AfterRequest(playerHistory, player, player', FALSE)
    /\ UNCHANGED << storedLibrary, tasks, bookInfo >>
    /\ LibraryUnchanged

\* handleJumpToBookmark(pageIndex), pageIndex a bookmarked page
JumpToBookmark(pageIndex) ==
    /\ player.focused
    /\ player' = throttledGoTo(player, player.isPageLoading, pageIndex, TRUE, FALSE)
    /\ playerHistory' = AfterRequest(playerHistory, player, player', FALSE)
    /\ UNCHANGED << storedLibrary, tasks, bookInfo >>
    /\ LibraryUnchanged

\* handleChangeRate while playing: Speech.stop() and startSpeech from the current word
ChangeRate ==
    /\ player.focused
    /\ player.isPlaying /\ player.pageData # -1 /\ TextOf(player.pageData) # "empty"
    /\ player' = startSpeech([player EXCEPT !.speech = NoSpeech],
                             TextOf(player.pageData), player.currentWordIndex,
                             player.isPageLoading)
    /\ player' # player
    /\ UNCHANGED << storedLibrary, tasks, bookInfo, playerHistory >>
    /\ LibraryUnchanged

\* onBoundary: the word being spoken
SpeechBoundary(w) ==
    /\ player.focused /\ player.speech.on
    /\ w >= player.speech.from /\ w > player.currentWordIndex
    /\ player' = [player EXCEPT !.currentWordIndex = w]
    /\ UNCHANGED << storedLibrary, tasks, bookInfo, playerHistory >>
    /\ LibraryUnchanged

\* the utterance ends by itself
SpeechDone ==
    /\ player.focused /\ player.speech.on
    /\ player' = onDone(player)
    /\ playerHistory' = IF player.isPlaying /\ player.speech.page < bookInfo.total_paginas - 1
                        THEN AfterRequest(playerHistory, player, player', TRUE)
                        ELSE playerHistory
    /\ UNCHANGED << storedLibrary, tasks, bookInfo >>
    /\ LibraryUnchanged

\* the speech engine reports an error
SpeechError ==
    /\ player.focused /\ player.speech.on
    /\ player' = onError(player)
    /\ UNCHANGED << storedLibrary, tasks, bookInfo, playerHistory >>
    /\ LibraryUnchanged

\* the interval of startTimer fires: one more second listened
TimerSecond ==
    /\ player.focused /\ player.timerOn
    /\ playerHistory.secondsCounted < MaxSeconds
    /\ player' = [player EXCEPT !.timeListened = @ + 1]
    /\ playerHistory' = [playerHistory EXCEPT !.secondsCounted = @ + 1]
    /\ UNCHANGED << storedLibrary, tasks, bookInfo >>
    /\ LibraryUnchanged

\* the timeout of safeGoTo fires: navLockRef.current = false
LockRelease ==
    /\ player.focused
    /\ player.navLock /\ player.lockLeft = 0
    /\ player' = [player EXCEPT !.navLock = FALSE]
    /\ UNCHANGED << storedLibrary, tasks, bookInfo, playerHistory >>
    /\ LibraryUnchanged

\* the timeout of schedule fires (after a lock release due at the same time, which
\* was set earlier): lastPageChangeAtRef = now, safeGoTo(...)
PendingNavFire ==
    /\ player.focused
    /\ player.pendingNav.on /\ player.pendingNav.left = 0
    /\ ~(player.navLock /\ player.lockLeft = 0)
    /\ player' = safeGoTo([player EXCEPT !.pendingNav = NoNav, !.sinceChange = 0],
                          player.pendingNav.deltaOrIndex, player.pendingNav.absolute,
                          player.pendingNav.continueSpeech)
    /\ playerHistory' = AfterTimeout(playerHistory, player, player')
    /\ UNCHANGED << storedLibrary, tasks, bookInfo >>
    /\ LibraryUnchanged

\* DeferDelay milliseconds pass; no timer is due, no effect is waiting to run and
\* the store calls issued so far have ended
ClockTick ==
    /\ PlayerBusy
    /\ tasks = EmptyBag
    /\ ~(player.navLock /\ player.lockLeft = 0)
    /\ ~(player.pendingNav.on /\ player.pendingNav.left = 0)
    /\ player' = [player EXCEPT
            !.lockLeft = IF player.navLock THEN @ - DeferDelay ELSE @,
            !.pendingNav.left = IF player.pendingNav.on THEN @ - DeferDelay ELSE @,
            !.sinceChange = MinOf(@ + DeferDelay, MIN_PAGE_CHANGE_INTERVAL)]
    /\ playerHistory' = [playerHistory EXCEPT
            !.sinceCommit = MinOf(@ + DeferDelay, MIN_PAGE_CHANGE_INTERVAL)]
    /\ << player', playerHistory' >> # << player, playerHistory >>
    /\ UNCHANGED << storedLibrary, tasks, bookInfo >>
    /\ LibraryUnchanged

\* the screen loses focus and is unmounted: the focus effect's cleanup runs with the
\* page index of the last render, the pending timeout is cleared
PlayerBlur ==
    /\ PlayerBusy
    /\ CountKind("state") < MaxStateCalls
    /\ tasks' = tasks (+) SetToBag({StateTask(bookInfo.id_arquivo, player.focusPage,
                                              player.timeListened)})
    /\ player' = [NoPlayer EXCEPT !.currentPageIndex = player.currentPageIndex,
                                   !.focusPage = player.focusPage,
                                   !.timeListened = focusCleanup(player).timeListened]
    /\ playerHistory' = [playerHistory EXCEPT !.continuing = FALSE,
                                              !.newestPending = FALSE]
    /\ UNCHANGED << storedLibrary, bookInfo >>
    /\ LibraryUnchanged

\* the book is opened again from the library: a new mount on the stored lastPosition
PlayerFocus ==
    /\ ~player.focused
    /\ player' = MountedPlayer(BookOf(storedLibrary, bookInfo.id_arquivo).lastPosition)
    /\ playerHistory' = [playerHistory EXCEPT !.sinceCommit = MIN_PAGE_CHANGE_INTERVAL]
    /\ UNCHANGED << storedLibrary, tasks, bookInfo >>
    /\ LibraryUnchanged

\* the player opened on a listed book of PlayerPages pages, of which the last may
\* not be fetched yet, each page with any kind of text
InitPlayer ==
    /\ \E n \in {PlayerPages - 1, PlayerPages} :
       \E texts \in [1..n -> Texts] :
          bookInfo = [ id_arquivo |-> 1, total_paginas |-> PlayerPages, pagesData |-> texts ]
    /\ storedLibrary = << [NewBook(1, PlayerPages) EXCEPT
                              !.status = IF Len(bookInfo.pagesData) = PlayerPages
                                         THEN "ready" ELSE "processing"] >>
    /\ bookFiles = [d \in Docs |->
                        [exists |-> TRUE, pages |-> [i \in 1..Len(bookInfo.pagesData) |-> i]]]
    /\ pdfFiles = {1}
    /\ processingControl = {}
    /\ library = storedLibrary
    /\ progress = EmptyProgress
    /\ isUploading = FALSE
    /\ effectPending = FALSE
    /\ tasks = EmptyBag
    /\ nextId = 2
    /\ playerBook = 1
    /\ events = 0
    /\ removeAsked = {}
    /\ removedMidFetch = {}
    /\ failedAt = [d \in Docs |-> 0]
    /\ onesReported = [d \in Docs |-> 0]
    /\ awaitingRetry = {}
    /\ removedPersisted = {}
    /\ player = MountedPlayer(0)
    /\ playerHistory = NoPlayerHistory
    /\ storeHistory = NoStoreHistory
    /\ utterance = NoUtterance
    /\ tooLargeShown = 0
    /\ pageFit = NoPageFit

NextPlayer ==
    \/ PlayerEffects
    \/ SpeechError
    \/ PressPlayPause
    \/ PressNext
    \/ PressPrevious
    \/ \E pageIndex \in 0..(PlayerPages - 1) : JumpToBookmark(pageIndex)
    \/ ChangeRate
    \/ \E w \in 1..MaxWord : SpeechBoundary(w)
    \/ SpeechDone
    \/ TimerSecond
    \/ LockRelease
    \/ PendingNavFire
    \/ ClockTick
    \/ PlayerBlur
    \/ PlayerFocus
    \/ \E t \in Running : StateLoad(t)
    \/ \E t \in Running : StateSave(t)

SpecPlayer == InitPlayer /\ [][NextPlayer]_vars

\* ============================================================ the store
\* utils/libraryManager.js under its call sites, on NumStoreDocs documents. A call
\* in flight is a record of the bag tasks; each action is the completion of one of
\* its awaits. Texts are sequences of the characters "a" and " ".
StoreDocs == 1..NumStoreDocs
StorePages == 0..(StoreTotal - 1)
Chars == {"a", " "}
Strings(n) == UNION {[1..k -> Chars] : k \in 0..n}

\* a text taken as it is
NoTrim(s) == s

\* String.prototype.trim on such a text
RECURSIVE trimStart(_)
trimStart(s) == IF s # << >> /\ Head(s) = " " THEN trimStart(Tail(s)) ELSE s

RECURSIVE trimEnd(_)
trimEnd(s) ==
    IF s # << >> /\ s[Len(s)] = " " THEN trimEnd(SubSeq(s, 1, Len(s) - 1)) ELSE s

trim(s) == trimEnd(trimStart(s))

\* Array.prototype.includes
Includes(seq, x) == \E i \in DOMAIN seq : seq[i] = x

\* an array left in the order it has
KeepOrder(seq) == seq

\* Array.prototype.sort((a, b) => a - b)
RECURSIVE SortAscending(_)
SortAscending(seq) ==
    IF seq = << >>
    THEN << >>
    ELSE LET m == CHOOSE i \in DOMAIN seq : \A j \in DOMAIN seq : seq[i] <= seq[j]
         IN  << seq[m] >> \o SortAscending([k \in 1..(Len(seq) - 1) |->
                                               IF k < m THEN seq[k] ELSE seq[k + 1]])

\* addBookmark: library.map(...) handed to saveLibrary
AddBookmarkList(lib, id, pageIndex) ==
    [i \in DOMAIN lib |->
        IF lib[i].id_arquivo = id /\ ~Includes(lib[i].bookmarks, pageIndex)
        THEN [lib[i] EXCEPT !.bookmarks = SortAscending(Append(@, pageIndex))]
        ELSE lib[i]]

\* removeBookmark: bookmarks.filter(p => p !== pageIndex)
RemoveBookmarkList(lib, id, pageIndex) ==
    [i \in DOMAIN lib |->
        IF lib[i].id_arquivo = id
        THEN [lib[i] EXCEPT !.bookmarks = SelectSeq(@, LAMBDA p : p # pageIndex)]
        ELSE lib[i]]

\* saveAnnotation: annotations[pageIndex] = text
SaveAnnotationList(lib, id, pageIndex, text) ==
    [i \in DOMAIN lib |->
        IF lib[i].id_arquivo = id
        THEN [lib[i] EXCEPT !.annotations =
                [q \in (DOMAIN @) \cup {pageIndex} |->
                    IF q = pageIndex THEN text ELSE @[q]]]
        ELSE lib[i]]

\* removeAnnotation: delete annotations[pageIndex]
RemoveAnnotationList(lib, id, pageIndex) ==
    [i \in DOMAIN lib |->
        IF lib[i].id_arquivo = id
        THEN [lib[i] EXCEPT !.annotations = [q \in (DOMAIN @) \ {pageIndex} |-> @[q]]]
        ELSE lib[i]]

\* a call of the store in flight: the function, the await it is suspended at, its
\* arguments (arg: status, timeIncrement, text or newPageData), the list its
\* loadLibrary returned, the list it hands to saveLibrary, updatedPages, and
\* bookToRemove?.localUri
StoreTask(kind, pc, bookId, pageIndex, arg, lib, newLib) ==
    [ kind |-> kind, pc |-> pc, bookId |-> bookId, pageIndex |-> pageIndex,
      arg |-> arg, library |-> lib, newLibrary |-> newLib, pages |-> << >>,
      localUri |-> FALSE ]

\* history: the call t has returned value; before: the bookmarks it had read
Returned(t, value) ==
    [storeHistory EXCEPT !.log = Append(@,
        [ kind |-> t.kind, bookId |-> t.bookId, pageIndex |-> t.pageIndex,
          arg |-> t.arg, value |-> value,
          before |-> IF t.kind \in {"addBookmark", "removeBookmark"}
                        /\ HasBook(t.library, t.bookId)
                     THEN BookOf(t.library, t.bookId).bookmarks ELSE << >> ])]

\* history: a call is entered, possibly while another one is in flight
Entered ==
    [storeHistory EXCEPT !.overlapped = @ \/ tasks # EmptyBag]

\* a further call can be entered
CanCall ==
    /\ BagCardinality(tasks) < MaxInFlight
    /\ Len(storeHistory.log) + BagCardinality(tasks) < MaxCalls

StoreRest ==
    UNCHANGED << processingControl, library, progress, isUploading, effectPending,
                 nextId, playerBook, events, history, playerVars, utterance,
                 tooLargeShown, pageFit >>

\* a call of kind with its arguments is entered and its loadLibrary resolves
\* with the persisted list; newLib is what it will hand to saveLibrary
StoreLoad(kind, bookId, pageIndex, arg, newLib) ==
    /\ CanCall
    /\ tasks' = tasks (+) SetToBag({StoreTask(kind, "save", bookId, pageIndex, arg,
                                              storedLibrary, newLib)})
    /\ storeHistory' = Entered
    /\ UNCHANGED << storedLibrary, bookFiles, pdfFiles >>
    /\ StoreRest

\* handleDocumentPick: the source file is copied to localUri and saveBook is
\* entered; its loadLibrary resolves. The id is present: saveBook returns.
\* Else the new entry is pushed and saveLibrary is issued
saveBookLoad(id) ==
    /\ CanCall
    /\ pdfFiles' = pdfFiles \cup {id}
    /\ IF HasBook(storedLibrary, id)
       THEN /\ tasks' = tasks
            /\ storeHistory' = [Returned(StoreTask("saveBook", "load", id, 0, 0,
                                                   storedLibrary, storedLibrary), 0)
                                  EXCEPT !.overlapped = @ \/ tasks # EmptyBag]
       ELSE /\ tasks' = tasks (+) SetToBag({StoreTask("saveBook", "save", id, 0, 0,
                                storedLibrary, SaveBookList(storedLibrary, id, StoreTotal))})
            /\ storeHistory' = Entered
    /\ UNCHANGED << storedLibrary, bookFiles >>
    /\ StoreRest

updateBookStatusLoad(id, status) ==
    StoreLoad("updateBookStatus", id, 0, status,
              UpdateBookStatusList(storedLibrary, id, status))

updateBookStateLoad(id, pageIndex, timeIncrement) ==
    StoreLoad("updateBookState", id, pageIndex, timeIncrement,
              UpdateBookStateList(storedLibrary, id, pageIndex, timeIncrement))

\* toggleBookmark of a render that shows pageIndex as not bookmarked
addBookmarkLoad(id, pageIndex) ==
    StoreLoad("addBookmark", id, pageIndex, 0,
              AddBookmarkList(storedLibrary, id, pageIndex))

\* toggleBookmark of a render that shows pageIndex as bookmarked
removeBookmarkLoad(id, pageIndex) ==
    StoreLoad("removeBookmark", id, pageIndex, 0,
              RemoveBookmarkList(storedLibrary, id, pageIndex))

\* handleSaveAnnotation with the text currentAnnotation on page pageIndex:
\* saveAnnotation when the trimmed text is not empty, else removeAnnotation
handleSaveAnnotation(id, pageIndex, currentAnnotation) ==
    IF trim(currentAnnotation) # << >>
    THEN StoreLoad("saveAnnotation", id, pageIndex, currentAnnotation,
                   SaveAnnotationList(storedLibrary, id, pageIndex, currentAnnotation))
    ELSE StoreLoad("removeAnnotation", id, pageIndex, currentAnnotation,
                   RemoveAnnotationList(storedLibrary, id, pageIndex))

\* removeBook is entered and its loadLibrary resolves: bookToRemove, newLibrary
removeBookLoad(id) ==
    /\ CanCall
    /\ tasks' = tasks (+) SetToBag({
            [StoreTask("removeBook", "save", id, 0, 0, storedLibrary,
                       RemoveBookList(storedLibrary, id))
               EXCEPT !.localUri = HasBook(storedLibrary, id)
                                   /\ BookOf(storedLibrary, id).localUri]})
    /\ storeHistory' = Entered
    /\ UNCHANGED << storedLibrary, bookFiles, pdfFiles >>
    /\ StoreRest

\* appendPageData is entered; makeDirectoryAsync and loadBookPages resolve:
\* updatedPages is built and writeAsStringAsync is issued
appendPageDataRead(id, newPageData) ==
    /\ CanCall
    /\ tasks' = tasks (+) SetToBag({
            [StoreTask("appendPageData", "write", id, 0, newPageData, << >>, << >>)
               EXCEPT !.pages = AppendedPages(bookFiles[id], newPageData)]})
    /\ storeHistory' = Entered
    /\ UNCHANGED << storedLibrary, bookFiles, pdfFiles >>
    /\ StoreRest

\* a function of the store that returns without handing its list to saveLibrary
StoreSaveSkipped(t) ==
    /\ t.pc = "save"
    /\ tasks' = Without(t)
    /\ storeHistory' = Returned(t, 0)
    /\ UNCHANGED << storedLibrary, bookFiles, pdfFiles >>
    /\ StoreRest

\* saveLibrary(newLibrary) resolves; saveBook goes on to write the page file,
\* removeBook to delete the files, every other function returns
StoreSave(t) ==
    /\ t.pc = "save"
    /\ storedLibrary' = t.newLibrary
    /\ IF t.kind = "saveBook"
       THEN /\ tasks' = Become(t, [t EXCEPT !.pc = "file"])
            /\ storeHistory' = storeHistory
       ELSE IF t.kind = "removeBook"
       THEN /\ tasks' = Become(t, [t EXCEPT !.pc = "deleteData"])
            /\ storeHistory' = storeHistory
       ELSE /\ tasks' = Without(t)
            /\ storeHistory' = Returned(t, 0)
    /\ UNCHANGED << bookFiles, pdfFiles >>
    /\ StoreRest

\* saveBook: makeDirectoryAsync and writeAsStringAsync(filePath, '[]') resolve
saveBookFile(t) ==
    /\ t.kind = "saveBook" /\ t.pc = "file"
    /\ bookFiles' = [bookFiles EXCEPT ![t.bookId] = [exists |-> TRUE, pages |-> << >>]]
    /\ tasks' = Without(t)
    /\ storeHistory' = Returned(t, 1)
    /\ UNCHANGED << storedLibrary, pdfFiles >>
    /\ StoreRest

\* removeBook: deleteAsync(dataPath, { idempotent: true }) resolves; without a
\* localUri removeBook returns
removeBookData(t) ==
    /\ t.kind = "removeBook" /\ t.pc = "deleteData"
    /\ bookFiles' = [bookFiles EXCEPT ![t.bookId] = NoFile]
    /\ IF t.localUri
       THEN /\ tasks' = Become(t, [t EXCEPT !.pc = "deleteUri"])
            /\ storeHistory' = storeHistory
       ELSE /\ tasks' = Without(t)
            /\ storeHistory' = Returned(t, 0)
    /\ UNCHANGED << storedLibrary, pdfFiles >>
    /\ StoreRest

\* removeBook: deleteAsync(bookToRemove.localUri, { idempotent: true }) resolves
removeBookUri(t) ==
    /\ t.kind = "removeBook" /\ t.pc = "deleteUri"
    /\ pdfFiles' = pdfFiles \ {t.bookId}
    /\ tasks' = Without(t)
    /\ storeHistory' = Returned(t, 0)
    /\ UNCHANGED << storedLibrary, bookFiles >>
    /\ StoreRest

\* appendPageData: writeAsStringAsync resolves; updatedPages.length is returned
appendPageDataWrite(t) ==
    /\ t.kind = "appendPageData" /\ t.pc = "write"
    /\ bookFiles' = [bookFiles EXCEPT ![t.bookId] = [exists |-> TRUE, pages |-> t.pages]]
    /\ tasks' = Without(t)
    /\ storeHistory' = Returned(t, Len(t.pages))
    /\ UNCHANGED << storedLibrary, pdfFiles >>
    /\ StoreRest

\* document 1 has been added (handleDocumentPick has ended), no other document is
\* known, and no call is in flight
InitStore ==
    /\ storedLibrary = << NewBook(1, StoreTotal) >>
    /\ bookFiles = [d \in StoreDocs |->
                        IF d = 1 THEN [exists |-> TRUE, pages |-> << >>] ELSE NoFile]
    /\ pdfFiles = {1}
    /\ processingControl = {}
    /\ library = << >>
    /\ progress = EmptyProgress
    /\ isUploading = FALSE
    /\ effectPending = FALSE
    /\ tasks = EmptyBag
    /\ nextId = 1
    /\ playerBook = 0
    /\ events = 0
    /\ removeAsked = {}
    /\ removedMidFetch = {}
    /\ failedAt = [d \in Docs |-> 0]
    /\ onesReported = [d \in Docs |-> 0]
    /\ awaitingRetry = {}
    /\ removedPersisted = {}
    /\ player = NoPlayer
    /\ bookInfo = NoBook
    /\ playerHistory = NoPlayerHistory
    /\ storeHistory = NoStoreHistory
    /\ utterance = NoUtterance
    /\ tooLargeShown = 0
    /\ pageFit = NoPageFit

NextStore ==
    \/ \E id \in StoreDocs : saveBookLoad(id)
    \/ \E id \in StoreDocs, status \in Statuses : updateBookStatusLoad(id, status)
    \/ \E id \in StoreDocs, pageIndex \in StorePages, timeIncrement \in 0..MaxListen :
          updateBookStateLoad(id, pageIndex, timeIncrement)
    \/ \E id \in StoreDocs, pageIndex \in StorePages : addBookmarkLoad(id, pageIndex)
    \/ \E id \in StoreDocs, pageIndex \in StorePages : removeBookmarkLoad(id, pageIndex)
    \/ \E id \in StoreDocs, pageIndex \in StorePages, text \in Strings(MaxText) :
          handleSaveAnnotation(id, pageIndex, text)
    \/ \E id \in StoreDocs : removeBookLoad(id)
    \/ \E id \in StoreDocs, newPageData \in 1..StoreTotal : appendPageDataRead(id, newPageData)
    \/ \E t \in Running : StoreSave(t)
    \/ \E t \in Running : saveBookFile(t)
    \/ \E t \in Running : removeBookData(t)
    \/ \E t \in Running : removeBookUri(t)
    \/ \E t \in Running : appendPageDataWrite(t)

SpecStore == InitStore /\ [][NextStore]_vars

\* ------------------------------------------------------------------ claims
\* the ingestion loops (processBookPages calls that set the marker and have not
\* reached a terminal step) of document id
LoopsOf(id) == {t \in Running : t.kind = "loop" /\ t.id = id}

\* removal of document id was never asked for
Stable(id) == id \notin removeAsked

\* the persisted entry of document id
Stored(id) == BookOf(storedLibrary, id)

\* the pages 1..n in order
Pages1To(n) == [i \in 1..n |-> i]

\* C1: in every reachable state at most one ingestion loop is active for each
\* document.
C1_SingleFlight == \A d \in Docs : ActiveLoops(d) <= 1

\* C2: once the removal of a document has ended while its loop awaited the answer
\* of a page fetch, no step adds a record to the document's page file.
C2_NoWriteAfterRemoval ==
    [][\A d \in removedMidFetch :
          PageCount(bookFiles'[d]) <= PageCount(bookFiles[d])]_vars

\* C3: for every listed document the page file holds the pages 1..n, each once and
\* none skipped, and a loop that is about to request or is requesting a page
\* requests page n+1 (the resume point at the start, the next page afterwards).
C3_ResumePoint ==
    \A d \in Docs : HasBook(storedLibrary, d) =>
        /\ bookFiles[d].pages = Pages1To(PageCount(bookFiles[d]))
        /\ \A t \in LoopsOf(d) :
              t.pc \in {"exists", "fetch"} => t.page = PageCount(bookFiles[d]) + 1

\* C4: an invocation in which appending a fetched page failed is still inside
\* appendPageData or on its failure path (status failed is being persisted, the
\* marker is cleared next); it neither goes on to another page nor ends as ready.
C4_AppendFailureTerminal ==
    \A t \in Running :
        (t.kind = "loop" /\ t.fault) => t.pc \in {"appendWrite", "failedSave"}

\* C5: when an invocation whose fetch of page P failed persists its status, the
\* document (no removal asked) is listed as failed, its marker is cleared and its
\* page file holds exactly P-1 records; an invocation that starts afterwards (the
\* user's retry) requests page P first.
C5_FetchFailure ==
    [][\A t \in Running : (t.kind = "loop" /\ Stable(t.id) /\ ~t.fault) =>
          /\ (t.pc = "failedSave" /\ LoopStatusSave(t)) =>
                /\ HasBook(storedLibrary', t.id)
                /\ BookOf(storedLibrary', t.id).status = "failed"
                /\ t.id \notin processingControl'
                /\ PageCount(bookFiles'[t.id]) = t.page - 1
          /\ (t.pc = "start" /\ failedAt[t.id] # 0 /\ LoopStart(t)) =>
                PageCount(bookFiles[t.id]) + 1 = failedAt[t.id]]_vars

\* C6: for a document whose removal was not asked, the k-th append leaves the pages
\* 1..k on disk and publishes the ratio k/N; when the loop persists ready the
\* document is listed as ready, N records are on disk and the ratio N/N was
\* reported exactly once.
C6_SuccessPath ==
    [][\A t \in Running : (t.kind = "loop" /\ Stable(t.id) /\ ~t.fault) =>
          /\ (t.pc = "appendWrite" /\ LoopAppendWrite(t)) =>
                /\ bookFiles'[t.id].pages = Pages1To(t.page)
                /\ progress'[t.id] = Ratio(t.page, t.total)
          /\ (t.pc = "readySave" /\ LoopStatusSave(t)) =>
                /\ HasBook(storedLibrary', t.id)
                /\ BookOf(storedLibrary', t.id).status = "ready"
                /\ PageCount(bookFiles'[t.id]) = t.total
                /\ onesReported'[t.id] = 1]_vars

\* C7: the page file of every listed document holds at most total_paginas records.
C7_PageCountBound ==
    \A d \in Docs : HasBook(storedLibrary, d) =>
        PageCount(bookFiles[d]) <= Stored(d).total_paginas

\* C8: while a document is listed, every step leaves the records already in its page
\* file in place (records are only added at the end), and the i-th record is page i.
C8_PageOrder ==
    [][\A d \in Docs : (HasBook(storedLibrary, d) /\ HasBook(storedLibrary', d)) =>
          /\ PageCount(bookFiles[d]) <= PageCount(bookFiles'[d])
          /\ \A i \in 1..PageCount(bookFiles[d]) :
                bookFiles'[d].pages[i] = bookFiles[d].pages[i]
          /\ \A i \in 1..PageCount(bookFiles'[d]) : bookFiles'[d].pages[i] = i]_vars

\* C9: no step changes the persisted status of a document from ready to processing
\* or failed, or from failed to ready; a change from failed to processing is the
\* saveLibrary of a retry.
C9_StatusMonotonic ==
    [][\A d \in Docs : (HasBook(storedLibrary, d) /\ HasBook(storedLibrary', d)) =>
          LET before == BookOf(storedLibrary, d).status
              after == BookOf(storedLibrary', d).status
          IN  /\ ~(before = "ready" /\ after \in {"processing", "failed"})
              /\ ~(before = "failed" /\ after = "ready")
              /\ (before = "failed" /\ after = "processing") =>
                    \E t \in Running : t.kind = "retry" /\ t.id = d /\ RetrySave(t)]_vars

\* C10: the marker of a document is present if and only if an ingestion loop is
\* active for it (set at the start, cleared at the loop's terminal step).
C10_MarkerIffActive ==
    \A d \in Docs : d \in processingControl <=> ActiveLoops(d) >= 1

\* no call chain is in flight and no effect is pending: nothing happens until the
\* user acts
Quiescent == tasks = EmptyBag /\ ~effectPending

\* the step in which loop t passes its existence check and issues its page fetch
IssuesFetch(t) ==
    /\ t.pc = "exists"
    /\ LoopExists(t)
    /\ tasks' = Become(t, [t EXCEPT !.pc = "fetch"])

\* C11: no page fetch is issued for a document whose loop persisted failed (and
\* whose removal was not asked) before a retry has persisted processing.
C11_NoAutomaticRetry ==
    [][\A t \in Running :
          (t.kind = "loop" /\ Stable(t.id) /\ t.id \in awaitingRetry)
             => ~IssuesFetch(t)]_vars

\* C12: when the library screen is shown and nothing is left to run, no listed
\* document is persisted as processing without a marker: its loop was started.
C12_ResumptionLiveness ==
    (Quiescent /\ playerBook = 0) =>
        \A d \in Docs :
            (HasBook(storedLibrary, d) /\ Stored(d).status = "processing")
                => d \in processingControl

\* C13: a loop never issues a page fetch after an existence check that ran after
\* removeBook saved the list without the document.
C13_CancellationLatency ==
    [][\A t \in Running :
          (t.kind = "loop" /\ t.id \in removedPersisted) => ~IssuesFetch(t)]_vars

\* the reload t decides on the book it has just counted: it goes on to
\* updateBookStatus(id, 'ready') exactly when the book is processing and complete
ReconcileDecision(t) ==
    LET book == t.books[t.idx]
        complete == /\ book.status = "processing"
                    /\ PageCount(bookFiles[book.id_arquivo]) = book.total_paginas
        flips == \E t2 \in BagToSet(tasks') : t2.kind = "reload" /\ t2.pc = "statusLoad"
    IN  ReloadPages(t) => (complete <=> flips)

\* the reload t saves the list of its updateBookStatus: the book is ready if listed,
\* and a status that this save changes belongs to a document whose file is complete
ReconcileSave(t) ==
    ReloadStatusSave(t) =>
        /\ LET id == t.books[t.idx].id_arquivo
           IN  HasBook(storedLibrary', id) => BookOf(storedLibrary', id).status = "ready"
        /\ \A d \in Docs :
              ( /\ HasBook(storedLibrary, d) /\ HasBook(storedLibrary', d)
                /\ BookOf(storedLibrary', d).status # Stored(d).status )
                 => PageCount(bookFiles[d]) = Stored(d).total_paginas

\* the reload t ends with setProgress: every processing or ready book of its list
\* with total > 0 gets count/total, count being the pages on disk
ReconcileProgress(t) ==
    ( /\ t.kind = "reload"
      /\ ReloadLoad(t) \/ ReloadPages(t) \/ ReloadStatusSave(t)
      /\ tasks' = Without(t) )
       => LET books == IF t.pc = "load" THEN storedLibrary ELSE t.books
          IN  \A i \in DOMAIN books :
                 ( /\ books[i].status \in {"processing", "ready"}
                   /\ books[i].total_paginas > 0 )
                    => progress'[books[i].id_arquivo] =
                          Ratio(PageCount(bookFiles[books[i].id_arquivo]),
                                books[i].total_paginas)

\* C14: a reload flips to ready exactly the processing books whose file is complete,
\* its save changes the status of no document whose page count differs from its
\* total, and the progress it publishes is count/total of the pages on disk.
C14_SelfHealing ==
    [][\A t \in Running :
          ReconcileDecision(t) /\ ReconcileSave(t) /\ ReconcileProgress(t)]_vars

\* ------------------------------------------------------- claims on the player
\* the page index the pending request asks for
PendingTarget ==
    IF player.pendingNav.absolute
    THEN player.pendingNav.deltaOrIndex
    ELSE player.currentPageIndex + player.pendingNav.deltaOrIndex

\* the pending request is re-issued and safeGoTo commits it
PendingCommitted ==
    /\ Commits(player, player')
    /\ player'.currentPageIndex = PendingTarget

\* C15: when the timeout of a request that was deferred because of the lock or a
\* loading page fires, and no later request was committed meanwhile, safeGoTo
\* commits it: the page index becomes the request's target.
C15_DeferredNotDropped ==
    [][(PendingNavFire /\ player.pendingNav.deferred /\ playerHistory.newestPending)
          => PendingCommitted]_vars

\* C16: a page change is committed no sooner than the minimum interval after the
\* one before, and the newest request of a window, held by the pending timeout,
\* is the one committed when the timeout fires.
C16_Coalescing ==
    [][/\ Commits(player, player')
             => playerHistory.sinceCommit >= MIN_PAGE_CHANGE_INTERVAL
       /\ (PendingNavFire /\ playerHistory.newestPending) => PendingCommitted]_vars

\* C17: the continuation requested by onDone while playing is committed (page
\* index + 1, playing still set), and the effects that follow it start speech on
\* the new page from word 0 with playing still set.
C17_AutomaticAdvance ==
    [][/\ ( /\ PendingNavFire
            /\ player.pendingNav.continueSpeech
            /\ player.isPlaying
            /\ playerHistory.newestPending )
             => (PendingCommitted /\ player'.isPlaying)
       /\ (PlayerEffects /\ playerHistory.continuing /\ player.isPlaying)
             => /\ player'.isPlaying
                /\ player'.speech.on
                /\ player'.speech.page = player.currentPageIndex
                /\ player'.speech.from = 0]_vars

\* C18: a step in which safeGoTo commits leaves no utterance, word index -1 and the
\* loading state; playing is cleared and the timer stopped unless the change
\* continues playback, in which case the playing flag is as before.
C18_CommittedPageChange ==
    [][Commits(player, player') =>
          /\ ~player'.speech.on
          /\ player'.currentWordIndex = -1
          /\ player'.isPageLoading
          /\ IF playerHistory'.continuing
             THEN player'.isPlaying = player.isPlaying
             ELSE ~player'.isPlaying /\ ~player'.timerOn]_vars

C18_Witness ==
    /\ player.navLock /\ player.effectsPending
    /\ playerHistory.continuing /\ player.isPlaying
    /\ player.focusPage # player.currentPageIndex

\* C19: natural completion on the last page, a speech error and a pause request
\* leave playing false and the timer stopped, and the timer is started again only
\* by a play request.
C19_ReturnToPaused ==
    [][/\ ( \/ SpeechDone /\ player.currentPageIndex >= bookInfo.total_paginas - 1
            \/ SpeechError
            \/ PressPlayPause /\ player.isPlaying )
             => (~player'.isPlaying /\ ~player'.timerOn)
       /\ (~player.timerOn /\ player'.timerOn)
             => (PressPlayPause /\ ~player.isPlaying)]_vars

C19_Witness ==
    /\ player.focused /\ ~player.isPlaying /\ ~player.timerOn /\ ~player.speech.on
    /\ player.timeListened > 0
    /\ ~player.navLock /\ ~player.effectsPending

\* C20: when the player has lost focus and its store calls have ended, the stored
\* lastPosition is the page index it showed, the stored listening time is the
\* number of seconds the timer counted, and the accumulator is zero.
C20_LeavingThePlayer ==
    (~player.focused /\ bookInfo # NoBook /\ tasks = EmptyBag) =>
        /\ Stored(bookInfo.id_arquivo).lastPosition = player.currentPageIndex
        /\ Stored(bookInfo.id_arquivo).listeningTime = playerHistory.secondsCounted
        /\ player.timeListened = 0

\* ------------------------------------------------------ claims on the store
\* no two calls of the store have been in flight together so far
Serial == ~storeHistory.overlapped

\* no call of the store is in flight
Quiet == tasks = EmptyBag

\* the calls that have returned, in the order of their return
Log == storeHistory.log

\* no two entries of lib share an identifier
UniqueIds(lib) ==
    \A i, j \in DOMAIN lib : lib[i].id_arquivo = lib[j].id_arquivo => i = j

\* e is an entry as saveBook creates it for id
FreshEntry(e, id) ==
    /\ e.id_arquivo = id
    /\ e.status = "processing"
    /\ e.lastPosition = 0
    /\ e.listeningTime = 0
    /\ e.completed = FALSE
    /\ e.bookmarks = << >>
    /\ DOMAIN e.annotations = {}

\* C21: saveBook with an identifier that is present changes neither the list nor
\* the page files and returns; with a new identifier it saves the list it read
\* (the persisted one when no other call is in flight) with exactly one entry
\* more, which is processing, at position 0, with no listening time, not
\* completed, without bookmarks and annotations, and then leaves the page file
\* of the identifier existing and empty. After every step no two entries of the
\* persisted list share an identifier.
C21_SaveBookIdempotent ==
    [][/\ UniqueIds(storedLibrary')
       /\ \A id \in StoreDocs :
            (saveBookLoad(id) /\ HasBook(storedLibrary, id)) =>
                /\ storedLibrary' = storedLibrary
                /\ bookFiles' = bookFiles
                /\ tasks' = tasks
       /\ \A t \in Running :
            t.kind = "saveBook" =>
                /\ StoreSave(t) =>
                     /\ Serial => t.library = storedLibrary
                     /\ Len(storedLibrary') = Len(t.library) + 1
                     /\ SubSeq(storedLibrary', 1, Len(t.library)) = t.library
                     /\ FreshEntry(storedLibrary'[Len(storedLibrary')], t.bookId)
                     /\ bookFiles' = bookFiles
                /\ saveBookFile(t) =>
                     /\ bookFiles'[t.bookId] = [exists |-> TRUE, pages |-> << >>]
                     /\ \A d \in StoreDocs \ {t.bookId} : bookFiles'[d] = bookFiles[d]
                     /\ storedLibrary' = storedLibrary]_vars

\* saveBook has added document 2 and a second saveBook for it has returned at once
C21_Witness ==
    /\ Serial /\ Quiet
    /\ \E i, j \in DOMAIN Log :
          /\ i < j
          /\ Log[i].kind = "saveBook" /\ Log[i].bookId = 2 /\ Log[i].value = 1
          /\ Log[j].kind = "saveBook" /\ Log[j].bookId = 2 /\ Log[j].value = 0
    /\ Len(storedLibrary) = 2

\* the position in the log of the last call that left the page file of id empty or
\* deleted it (saveBook that added id, removeBook); 0: none
LastReset(id) ==
    LET R == {i \in DOMAIN Log :
                /\ Log[i].bookId = id
                /\ \/ Log[i].kind = "removeBook"
                   \/ Log[i].kind = "saveBook" /\ Log[i].value = 1}
    IN  IF R = {} THEN 0 ELSE CHOOSE i \in R : \A j \in R : j <= i

\* the appendPageData calls for id that returned since, in the order of their return
AppendsSince(id) ==
    SelectSeq(SubSeq(Log, LastReset(id) + 1, Len(Log)),
              LAMBDA c : c.kind = "appendPageData" /\ c.bookId = id)

\* C22: when the calls so far ran one after the other and N >= 1 appendPageData
\* calls for a document have returned since its page file was empty (or missing),
\* the page file holds exactly the N records passed, in call order, and the k-th
\* of these calls returned k.
C22_AppendMonotonic ==
    (Serial /\ Quiet) =>
        \A id \in StoreDocs :
            LET a == AppendsSince(id)
            IN  a # << >> =>
                    /\ bookFiles[id].exists
                    /\ bookFiles[id].pages = [k \in 1..Len(a) |-> a[k].arg]
                    /\ \A k \in 1..Len(a) : a[k].value = k

\* three calls for a document whose page file did not exist: pages 2, 1, 2
C22_Witness ==
    /\ Serial /\ Quiet
    /\ Len(AppendsSince(2)) = 3
    /\ bookFiles[2].pages = << 2, 1, 2 >>

\* the list a call leaves when it meets lib and runs alone
Applied(lib, c) ==
    CASE c.kind = "saveBook" -> SaveBookList(lib, c.bookId, StoreTotal)
      [] c.kind = "updateBookStatus" -> UpdateBookStatusList(lib, c.bookId, c.arg)
      [] c.kind = "updateBookState" ->
            UpdateBookStateList(lib, c.bookId, c.pageIndex, c.arg)
      [] c.kind = "addBookmark" -> AddBookmarkList(lib, c.bookId, c.pageIndex)
      [] c.kind = "removeBookmark" -> RemoveBookmarkList(lib, c.bookId, c.pageIndex)
      [] c.kind = "saveAnnotation" ->
            SaveAnnotationList(lib, c.bookId, c.pageIndex, c.arg)
      [] c.kind = "removeAnnotation" -> RemoveAnnotationList(lib, c.bookId, c.pageIndex)
      [] c.kind = "removeBook" -> RemoveBookList(lib, c.bookId)
      [] OTHER -> lib

\* the list after the calls of log ran one after the other on lib
RECURSIVE Replayed(_, _)
Replayed(lib, log) ==
    IF log = << >> THEN lib ELSE Replayed(Applied(lib, Head(log)), Tail(log))

\* C23: every function of the store hands to saveLibrary the list it made from
\* its own loadLibrary, whatever has been persisted since; so when the calls ran
\* one after the other the persisted list holds the effect of every call that
\* returned, and an update can be lost only by calls that overlap (the witness).
C23_LostUpdate ==
    /\ [][\A t \in Running : StoreSave(t) => storedLibrary' = t.newLibrary]_vars
    /\ []((Serial /\ Quiet) =>
             storedLibrary = Replayed(<< NewBook(1, StoreTotal) >>, Log))

\* updateBookStatus(1, 'ready') and updateBookState(1, 1, 1) have both returned, no
\* other call was made, and the persisted entry lacks the effect of one of them
C23_Witness ==
    /\ Quiet
    /\ Len(Log) = 2
    /\ \E i, j \in DOMAIN Log :
          /\ Log[i].kind = "updateBookStatus" /\ Log[i].bookId = 1
          /\ Log[i].arg = "ready"
          /\ Log[j].kind = "updateBookState" /\ Log[j].bookId = 1
          /\ Log[j].pageIndex = 1 /\ Log[j].arg = 1
    /\ \/ Stored(1).status = "processing"
       \/ Stored(1).lastPosition = 0

\* entry e2 is entry e but for the fields named in fields
SameBut(e, e2, fields) ==
    /\ DOMAIN e2 = DOMAIN e
    /\ \A f \in (DOMAIN e) \ fields : e2[f] = e[f]

\* C24: updateBookStatus(id, s) persists the list it read (the persisted one when
\* no other call is in flight) with the same entries in the same order, in which
\* the entries whose identifier is id have status s and are otherwise unchanged and
\* all other entries are unchanged; without an entry for id the list is unchanged.
\* No step of the call changes a page file or a source file.
C24_UpdateBookStatusFrame ==
    [][/\ \A id \in StoreDocs, status \in Statuses :
            updateBookStatusLoad(id, status) =>
                UNCHANGED << storedLibrary, bookFiles, pdfFiles >>
       /\ \A t \in Running :
            (t.kind = "updateBookStatus" /\ StoreSave(t)) =>
                /\ Serial => t.library = storedLibrary
                /\ Len(storedLibrary') = Len(t.library)
                /\ \A i \in DOMAIN t.library :
                      IF t.library[i].id_arquivo = t.bookId
                      THEN /\ storedLibrary'[i].status = t.arg
                           /\ SameBut(t.library[i], storedLibrary'[i], {"status"})
                      ELSE storedLibrary'[i] = t.library[i]
                /\ ~HasBook(t.library, t.bookId) => storedLibrary' = t.library
                /\ UNCHANGED << bookFiles, pdfFiles >>]_vars

\* after saveBook(2) and updateBookState(1, 1, 1), updateBookStatus(1, 'failed')
\* has returned: entry 1 is failed at position 1, entry 2 is as it was added
C24_Witness ==
    /\ Serial /\ Quiet
    /\ Len(Log) = 3
    /\ Log[3].kind = "updateBookStatus" /\ Log[3].bookId = 1 /\ Log[3].arg = "failed"
    /\ Len(storedLibrary) = 2
    /\ Stored(1).status = "failed" /\ Stored(1).lastPosition = 1
    /\ Stored(1).listeningTime = 1
    /\ FreshEntry(Stored(2), 2)

\* the removeBook call t returns with this step
RemoveBookReturns(t) ==
    /\ t.kind = "removeBook"
    /\ \/ removeBookData(t) /\ ~t.localUri
       \/ removeBookUri(t)

\* C25: removeBook(id) persists the list it read without the entries for id, every
\* other entry unchanged; its steps change no file of another document; and when
\* it returns after calls that ran one after the other, the persisted list has no
\* entry for id and neither the page file nor the source file of id exists. The
\* steps are taken just the same when a file is missing already.
C25_RemoveBook ==
    [][\A t \in Running :
          /\ (t.kind = "removeBook" /\ StoreSave(t)) =>
                /\ Serial => t.library = storedLibrary
                /\ ~HasBook(storedLibrary', t.bookId)
                /\ \A d \in StoreDocs \ {t.bookId} :
                      /\ HasBook(storedLibrary', d) = HasBook(t.library, d)
                      /\ HasBook(t.library, d) =>
                            BookOf(storedLibrary', d) = BookOf(t.library, d)
                /\ UNCHANGED << bookFiles, pdfFiles >>
          /\ (t.kind = "removeBook" /\ (removeBookData(t) \/ removeBookUri(t))) =>
                /\ storedLibrary' = storedLibrary
                /\ \A d \in StoreDocs \ {t.bookId} :
                      /\ bookFiles'[d] = bookFiles[d]
                      /\ (d \in pdfFiles') = (d \in pdfFiles)
          /\ (RemoveBookReturns(t) /\ Serial) =>
                /\ ~HasBook(storedLibrary', t.bookId)
                /\ ~bookFiles'[t.bookId].exists
                /\ t.bookId \notin pdfFiles']_vars

\* saveBook(2), removeBook(1) and once more removeBook(1), which found neither an
\* entry nor a file: document 2 is as it was added, nothing is left of document 1
C25_Witness ==
    /\ Serial /\ Quiet
    /\ Len(Log) = 3
    /\ Log[2].kind = "removeBook" /\ Log[2].bookId = 1
    /\ Log[3].kind = "removeBook" /\ Log[3].bookId = 1
    /\ Len(storedLibrary) = 1 /\ FreshEntry(storedLibrary[1], 2)
    /\ bookFiles[2].exists /\ ~bookFiles[1].exists
    /\ pdfFiles = {2}

\* C26: updateBookState(id, pageIndex, delta) persists, for the entry of id in the
\* list it read (the persisted one when no other call is in flight), the position
\* pageIndex and the listening time plus delta; completed is true when
\* pageIndex >= total - 1, and it stays true when it was true in the list read,
\* whatever pageIndex is.
C26_CompletedFlag ==
    [][\A t \in Running :
          (t.kind = "updateBookState" /\ StoreSave(t) /\ HasBook(t.library, t.bookId)) =>
              LET old == BookOf(t.library, t.bookId)
                  new == BookOf(storedLibrary', t.bookId)
              IN  /\ Serial => t.library = storedLibrary
                  /\ new.lastPosition = t.pageIndex
                  /\ new.listeningTime = old.listeningTime + t.arg
                  /\ t.pageIndex >= old.total_paginas - 1 => new.completed
                  /\ old.completed => new.completed
                  /\ SameBut(old, new, {"lastPosition", "listeningTime", "completed"})]_vars

\* updateBookState on the last page, then on page 0, then on page 0 again, one
\* second each: position 0, three seconds, completed
C26_Witness ==
    /\ Serial /\ Quiet
    /\ Len(Log) = 3
    /\ \A i \in 1..3 : Log[i].kind = "updateBookState" /\ Log[i].bookId = 1
                       /\ Log[i].arg = 1
    /\ Log[1].pageIndex = StoreTotal - 1 /\ Log[2].pageIndex = 0 /\ Log[3].pageIndex = 0
    /\ Stored(1).completed
    /\ Stored(1).lastPosition = 0
    /\ Stored(1).listeningTime = 3

\* seq is strictly ascending (so it has no duplicates)
StrictlyAscending(seq) == \A i, j \in DOMAIN seq : i < j => seq[i] < seq[j]

\* the elements of seq
Elements(seq) == {seq[i] : i \in DOMAIN seq}

\* the log ends with addBookmark(id, p) of an absent p and then removeBookmark(id, p)
AddThenRemove(id, p) ==
    /\ Len(Log) >= 2
    /\ LET a == Log[Len(Log) - 1]
           r == Log[Len(Log)]
       IN  /\ a.kind = "addBookmark" /\ a.bookId = id /\ a.pageIndex = p
           /\ r.kind = "removeBookmark" /\ r.bookId = id /\ r.pageIndex = p
           /\ ~Includes(a.before, p)

\* C27: in every state the bookmarks of every persisted entry are strictly
\* ascending; addBookmark of a page that is in the list read saves the list as
\* read, of another page it saves the bookmarks read and that page; removeBookmark
\* saves the bookmarks read without the page; and when the calls ran one after
\* the other, removeBookmark(p) right after addBookmark(p) of an absent p leaves
\* the bookmarks that preceded the add.
C27_Bookmarks ==
    /\ [](\A i \in DOMAIN storedLibrary : StrictlyAscending(storedLibrary[i].bookmarks))
    /\ [](\A id \in StoreDocs, p \in StorePages :
            (Serial /\ Quiet /\ AddThenRemove(id, p) /\ HasBook(storedLibrary, id)) =>
                Stored(id).bookmarks = Log[Len(Log) - 1].before)
    /\ [][\A t \in Running :
            (t.kind \in {"addBookmark", "removeBookmark"} /\ StoreSave(t)
                /\ HasBook(t.library, t.bookId)) =>
                LET old == BookOf(t.library, t.bookId)
                    new == BookOf(storedLibrary', t.bookId)
                IN  /\ Serial => t.library = storedLibrary
                    /\ SameBut(old, new, {"bookmarks"})
                    /\ IF t.kind = "removeBookmark"
                       THEN Elements(new.bookmarks)
                                = Elements(old.bookmarks) \ {t.pageIndex}
                       ELSE /\ Elements(new.bookmarks)
                                  = Elements(old.bookmarks) \cup {t.pageIndex}
                            /\ Includes(old.bookmarks, t.pageIndex) =>
                                  storedLibrary' = t.library]_vars

\* page 1 is bookmarked, then page 0, which is put in front, and page 0 is removed:
\* the bookmarks are those before the second add
C27_Witness ==
    /\ Serial /\ Quiet
    /\ Len(Log) = 3
    /\ Log[1].kind = "addBookmark" /\ Log[1].bookId = 1 /\ Log[1].pageIndex = 1
    /\ AddThenRemove(1, 0)
    /\ Log[2].before = << 1 >>
    /\ Log[3].before = << 0, 1 >>
    /\ Stored(1).bookmarks = << 1 >>

\* the annotations new are the annotations old with page p set to text
KeySet(old, new, p, text) ==
    /\ DOMAIN new = (DOMAIN old) \cup {p}
    /\ new[p] = text
    /\ \A q \in (DOMAIN old) \ {p} : new[q] = old[q]

\* the annotations new are the annotations old without page p
KeyDeleted(old, new, p) ==
    /\ DOMAIN new = (DOMAIN old) \ {p}
    /\ \A q \in DOMAIN new : new[q] = old[q]

\* text has no character, or white space only
Blank(text) == \A i \in DOMAIN text : text[i] = " "

\* C28 as stated: saving an empty text for page p leaves the annotations read
\* without the key p, saving any other text sets exactly the key p to it, and no
\* key with an empty text is persisted.
C28_AnnotationsAsStated ==
    /\ [](\A i \in DOMAIN storedLibrary :
             \A q \in DOMAIN storedLibrary[i].annotations :
                storedLibrary[i].annotations[q] # << >>)
    /\ [][\A t \in Running :
            (t.kind \in {"saveAnnotation", "removeAnnotation"} /\ StoreSave(t)
                /\ HasBook(t.library, t.bookId)) =>
                LET old == BookOf(t.library, t.bookId).annotations
                    new == BookOf(storedLibrary', t.bookId).annotations
                IN  IF t.arg = << >>
                    THEN KeyDeleted(old, new, t.pageIndex)
                    ELSE KeySet(old, new, t.pageIndex, t.arg)]_vars

\* C28, amended: saving a text that is empty or white space only for page p
\* (removeAnnotation) leaves the annotations read without exactly the key p; saving
\* any other text (saveAnnotation) sets exactly the key p to the text as typed; no
\* other field changes, and no key with an empty or blank text is persisted.
C28_Annotations ==
    /\ [](\A i \in DOMAIN storedLibrary :
             \A q \in DOMAIN storedLibrary[i].annotations :
                ~Blank(storedLibrary[i].annotations[q]))
    /\ [][\A t \in Running :
            (t.kind \in {"saveAnnotation", "removeAnnotation"} /\ StoreSave(t)
                /\ HasBook(t.library, t.bookId)) =>
                LET old == BookOf(t.library, t.bookId)
                    new == BookOf(storedLibrary', t.bookId)
                IN  /\ Serial => t.library = storedLibrary
                    /\ (t.kind = "removeAnnotation") = Blank(t.arg)
                    /\ SameBut(old, new, {"annotations"})
                    /\ IF Blank(t.arg)
                       THEN KeyDeleted(old.annotations, new.annotations, t.pageIndex)
                       ELSE KeySet(old.annotations, new.annotations, t.pageIndex,
                                   t.arg)]_vars

\* "a" was saved for pages 1 and 0, then " " for page 0: only page 1 has a note
C28_Witness ==
    /\ Serial /\ Quiet
    /\ Len(Log) = 3
    /\ Log[1].kind = "saveAnnotation" /\ Log[1].bookId = 1 /\ Log[1].pageIndex = 1
    /\ Log[2].kind = "saveAnnotation" /\ Log[2].bookId = 1 /\ Log[2].pageIndex = 0
    /\ Log[3].kind = "removeAnnotation" /\ Log[3].bookId = 1 /\ Log[3].pageIndex = 0
    /\ Log[3].arg = << " " >>
    /\ DOMAIN Stored(1).annotations = {1}
    /\ Stored(1).annotations[1] = << "a" >>

\* C29: a pick of a file of more than MAX_FILE_SIZE_BYTES bytes starts no call (no
\* upload is issued, no identifier is handed out) and changes neither the persisted
\* list, the page files, the source files, the listed library, the progress map
\* nor the uploading flag.
C29_OversizedInput ==
    [][\A size \in FileSizes :
          (PickDocument(size) /\ size > MAX_FILE_SIZE_BYTES) =>
              UNCHANGED << tasks, nextId, storedLibrary, bookFiles, pdfFiles, library,
                           progress, isUploading >>]_vars

\* the alert was shown while a document is listed as ready
C29_Witness ==
    /\ tooLargeShown = 1
    /\ Len(library) = 1 /\ library[1].status = "ready"
    /\ ~isUploading

\* ------------------------------------------- part_000: startSpeech, onBoundary
\* the word index of the highlight as startSpeech and its onBoundary compute it,
\* over texts of letters and white space

\* textToSpeak.split(/\s+/) from position i on: cur is the piece collected so
\* far, inRun says that the character before i was white space. A text that
\* starts or ends with white space has an empty first or last piece
RECURSIVE SplitFrom(_, _, _, _)
SplitFrom(str, i, cur, inRun) ==
    IF i > Len(str) THEN << cur >>
    ELSE IF str[i] = " "
         THEN IF inRun THEN SplitFrom(str, i + 1, cur, TRUE)
                       ELSE << cur >> \o SplitFrom(str, i + 1, << >>, TRUE)
         ELSE SplitFrom(str, i + 1, Append(cur, str[i]), FALSE)

split(str) == SplitFrom(str, 1, << >>, FALSE)

\* words.slice(start), start >= 0
slice(words, start) ==
    IF start >= Len(words) THEN << >> ELSE SubSeq(words, start + 1, Len(words))

\* words.join(' ')
RECURSIVE join(_)
join(words) ==
    IF words = << >> THEN << >>
    ELSE IF Len(words) = 1 THEN words[1]
    ELSE words[1] \o << " " >> \o join(Tail(words))

\* the whole text whatever the offsets
wholeString(str, start, end) == str

\* str.substring(start, end), 0 <= start <= end; end is cut at the length
substring(str, start, end) == SubSeq(str, start + 1, MinOf(end, Len(str)))

\* (str.match(/\s+/g) || []).length: the runs of white space in str
RECURSIVE WhiteSpaceRuns(_)
WhiteSpaceRuns(str) ==
    IF str = << >> THEN 0
    ELSE IF Head(str) = " " THEN 1 + WhiteSpaceRuns(trimStart(str))
    ELSE WhiteSpaceRuns(Tail(str))

\* startSpeech(textToSpeak, rate, fromWordIndex, voice): nothing is spoken for
\* a blank text or when no word is left from startIndex on
SpeakFrom(textToSpeak, fromWordIndex) ==
    LET words == split(textToSpeak)
        startIndex == IF fromWordIndex >= 0 THEN fromWordIndex ELSE 0
        textSegment == join(slice(words, startIndex))
    IN  /\ utterance' =
              IF trim(textToSpeak) = << >> \/ textSegment = << >>
              THEN [ utterance EXCEPT !.on = FALSE ]
              ELSE [ on |-> TRUE, textToSpeak |-> textToSpeak,
                     startIndex |-> startIndex, textSegment |-> textSegment,
                     charIndex |-> -1,
                     currentWordIndex |-> utterance.currentWordIndex ]
        /\ UNCHANGED << storedLibrary, bookFiles, pdfFiles, processingControl, library,
                        progress, isUploading, effectPending, tasks, nextId,
                        playerBook, events, history, playerVars, storeHistory,
                        tooLargeShown, pageFit >>

\* onBoundary(event) with event.charIndex an offset of the spoken segment
onBoundary(charIndex) ==
    /\ utterance.on
    /\ charIndex \in 0..Len(utterance.textSegment)
    /\ LET spokenText == substring(utterance.textSegment, 0, charIndex)
           currentLocalWordIndex == WhiteSpaceRuns(spokenText)
       IN  utterance' =
               [ utterance EXCEPT
                   !.charIndex = charIndex,
                   !.currentWordIndex = utterance.startIndex + currentLocalWordIndex ]
    /\ UNCHANGED << storedLibrary, bookFiles, pdfFiles, processingControl, library,
                    progress, isUploading, effectPending, tasks, nextId,
                    playerBook, events, history, playerVars, storeHistory,
                    tooLargeShown, pageFit >>

NextSpeech ==
    \/ \E textToSpeak \in Strings(MaxSpeechText), fromWordIndex \in -1..MaxFromWord :
          SpeakFrom(textToSpeak, fromWordIndex)
    \/ \E charIndex \in 0..MaxSpeechText : onBoundary(charIndex)

\* nothing is spoken at first; the rest of the state stays as the store starts
SpecSpeech == InitStore /\ [][NextSpeech]_vars

\* the offsets at which a white-space-delimited token of seg ends: a token ends
\* where white space begins (an empty first token ends at 0) and at the end
TokenEnds(seg) ==
    { e \in 0..(Len(seg) - 1) : seg[e + 1] = " " /\ (e = 0 \/ seg[e] # " ") }
        \cup { Len(seg) }

\* C30: after a boundary at offset c of the segment spoken from word index s, the
\* highlighted word index is s plus the number of white-space-delimited tokens of
\* the segment that end before c.
C30_WordIndexFromBoundary ==
    utterance.charIndex >= 0 =>
        utterance.currentWordIndex =
            utterance.startIndex
              + Cardinality({ e \in TokenEnds(utterance.textSegment) :
                                 e < utterance.charIndex })

\* "a a a" spoken from word 1, boundary at the second word of the segment
C30_Witness ==
    /\ utterance.on
    /\ utterance.textToSpeak = << "a", " ", "a", " ", "a" >>
    /\ utterance.startIndex = 1
    /\ utterance.textSegment = << "a", " ", "a" >>
    /\ utterance.charIndex = 2
    /\ utterance.currentWordIndex = 2

\* ------------------------------------ part_000: page-fit scale and offsets
\* JavaScript numbers are binary floating point: every operation gives the
\* representable number nearest to the exact result, ties to the even
\* significand. A number is [m, e] for m * 2^e.

\* n / d * 2^e (n, d > 0) rounded to MantissaBits bits
RoundRat(n, d, e) ==
    LET s == CHOOSE k \in (0 - 2 * MantissaBits)..(2 * MantissaBits) :
                 LET num == IF k >= 0 THEN n * 2 ^ k ELSE n
                     den == IF k >= 0 THEN d ELSE d * 2 ^ (0 - k)
                 IN  /\ 2 ^ (MantissaBits - 1) * den <= num
                     /\ num < 2 ^ MantissaBits * den
        num == IF s >= 0 THEN n * 2 ^ s ELSE n
        den == IF s >= 0 THEN d ELSE d * 2 ^ (0 - s)
        q == num \div den
        r == num % den
        up == 2 * r > den \/ (2 * r = den /\ q % 2 = 1)
        m == IF up THEN q + 1 ELSE q
    IN  IF m = 2 ^ MantissaBits
        THEN [ m |-> 2 ^ (MantissaBits - 1), e |-> e - s + 1 ]
        ELSE [ m |-> m, e |-> e - s ]

\* x - y as an exact integer multiple of 2^MinOf(x.e, y.e)
Diff(x, y) ==
    LET low == MinOf(x.e, y.e)
    IN  x.m * 2 ^ (x.e - low) - y.m * 2 ^ (y.e - low)

\* x / y, x * y, x - y (x, y > 0) and Math.min(x, y) of the numbers
Divide(x, y) == RoundRat(x.m, y.m, x.e - y.e)
Times(x, y) == RoundRat(x.m * y.m, 1, x.e + y.e)
Minus(x, y) ==
    LET d == Diff(x, y)
        low == MinOf(x.e, y.e)
    IN  IF d = 0 THEN Zero
        ELSE IF d > 0 THEN RoundRat(d, 1, low)
        ELSE [ RoundRat(0 - d, 1, low) EXCEPT !.m = 0 - @ ]
MathMin(x, y) == IF Diff(y, x) < 0 THEN y ELSE x

\* native widths and heights of pages (newPageData.dimensoes)
PageSides == {1, 2, 13, 21}

\* the onLayout handler of the content area
onLayout(width, height) ==
    /\ width > 0 /\ height > 0
    /\ width # pageFit.containerLayout.width \/ height # pageFit.containerLayout.height
    /\ pageFit' = [ pageFit EXCEPT !.containerLayout = [ width |-> width, height |-> height ],
                                   !.effectDue = TRUE, !.fitted = FALSE ]
    /\ UNCHANGED << storedLibrary, bookFiles, pdfFiles, processingControl, library,
                    progress, isUploading, effectPending, tasks, nextId, playerBook,
                    events, history, playerVars, storeHistory, utterance,
                    tooLargeShown >>

\* the page-data effect for a page whose record has the dimensions width, height
setPdfLayout(width, height) ==
    /\ pageFit' = [ pageFit EXCEPT !.pdfLayout = [ width |-> width, height |-> height ],
                                   !.isPageLoading = TRUE,
                                   !.effectDue = TRUE, !.fitted = FALSE ]
    /\ UNCHANGED << storedLibrary, bookFiles, pdfFiles, processingControl, library,
                    progress, isUploading, effectPending, tasks, nextId, playerBook,
                    events, history, playerVars, storeHistory, utterance,
                    tooLargeShown >>

\* the effect on [pdfLayout, containerLayout]
ScaleEffect ==
    /\ pageFit.effectDue
    /\ LET pdfLayout == pageFit.pdfLayout
           containerLayout == pageFit.containerLayout
       IN  IF /\ pdfLayout.width > 1 /\ pdfLayout.height > 1
              /\ containerLayout.width > 0 /\ containerLayout.height > 0
           THEN LET pw == RoundRat(pdfLayout.width, 1, 0)
                    ph == RoundRat(pdfLayout.height, 1, 0)
                    cw == RoundRat(containerLayout.width, 1, 0)
                    ch == RoundRat(containerLayout.height, 1, 0)
                    scaleToFitWidth == Divide(cw, pw)
                    scaleToFitHeight == Divide(ch, ph)
                    scale == MathMin(scaleToFitWidth, scaleToFitHeight)
                    scaledPdfWidth == Times(pw, scale)
                    scaledPdfHeight == Times(ph, scale)
                    half(x) == IF x.m = 0 THEN Zero ELSE [ x EXCEPT !.e = @ - 1 ]
                    topOffset == half(Minus(ch, scaledPdfHeight))
                    leftOffset == half(Minus(cw, scaledPdfWidth))
                IN  pageFit' = [ pageFit EXCEPT
                                   !.pdfScale = scale,
                                   !.pdfOffsets = [ top |-> topOffset, left |-> leftOffset ],
                                   !.isPageLoading = FALSE,
                                   !.effectDue = FALSE, !.fitted = TRUE ]
           ELSE pageFit' = [ pageFit EXCEPT !.effectDue = FALSE ]
    /\ UNCHANGED << storedLibrary, bookFiles, pdfFiles, processingControl, library,
                    progress, isUploading, effectPending, tasks, nextId, playerBook,
                    events, history, playerVars, storeHistory, utterance,
                    tooLargeShown >>

NextFit ==
    \/ \E width \in 1..MaxContainer, height \in 1..MaxContainer : onLayout(width, height)
    \/ \E width \in PageSides, height \in PageSides : setPdfLayout(width, height)
    \/ ScaleEffect

\* the player as it is mounted; the rest of the state stays as the store starts
SpecFit == InitStore /\ [][NextFit]_vars

\* C31: whenever scale and offsets were computed from the present layouts, the
\* scaled page is not wider and not higher than the container, it is exactly as
\* wide or exactly as high, and the top and left offsets are not negative.
C31_PageFitScale ==
    pageFit.fitted =>
        LET pw == RoundRat(pageFit.pdfLayout.width, 1, 0)
            ph == RoundRat(pageFit.pdfLayout.height, 1, 0)
            cw == RoundRat(pageFit.containerLayout.width, 1, 0)
            ch == RoundRat(pageFit.containerLayout.height, 1, 0)
            w == Times(pageFit.pdfScale, pw)
            h == Times(pageFit.pdfScale, ph)
        IN  /\ Diff(w, cw) <= 0
            /\ Diff(h, ch) <= 0
            /\ Diff(w, cw) = 0 \/ Diff(h, ch) = 0
            /\ pageFit.pdfOffsets.top.m >= 0
            /\ pageFit.pdfOffsets.left.m >= 0

\* ------------------------------------------------- the library screen, fair
\* a step of an ingestion loop: an await of processBookPages / processPage resolves
LoopStep ==
    \E t \in Running :
        \/ LoopStart(t) \/ LoopExists(t) \/ LoopFetch(t)
        \/ LoopAppendWrite(t) \/ LoopReadyLoad(t) \/ LoopStatusSave(t)

\* a step of loadBooksFromStorage, or the effect that follows its setLibrary
ReloadStep ==
    \/ \E t \in Running :
          ReloadLoad(t) \/ ReloadPages(t) \/ ReloadStatusLoad(t) \/ ReloadStatusSave(t)
    \/ PendingBookEffect

\* every storage call resolves, every page fetch answers or times out, and
\* effects run; what the user does and when is left open
SpecLive == Init /\ [][Next]_vars /\ WF_vars(LoopStep) /\ WF_vars(ReloadStep)

\* the loop t ends in this step
LoopEnds(t) ==
    /\ t.kind = "loop"
    /\ ActiveLoops(t.id)' < ActiveLoops(t.id)
    /\ LoopExists(t) \/ LoopStatusSave(t)

\* C32: a document that has a loop in flight gets to a state with none; a loop
\* ends only with the document persisted as ready or failed, or absent from the
\* persisted list; a loop that waits for a page fetch asked for a page from 1 to
\* the total page count.
C32_IngestionTermination ==
    /\ \A d \in Docs : (ActiveLoops(d) > 0) ~> (ActiveLoops(d) = 0)
    /\ [][\A t \in Running :
             LoopEnds(t) =>
                 \/ ~HasBook(storedLibrary', t.id)
                 \/ BookOf(storedLibrary', t.id).status \in {"ready", "failed"}]_vars
    /\ [](\A t \in Running :
             (t.kind = "loop" /\ t.pc = "fetch") => t.page \in 1..t.total)


\* a loop has appended the last page and ended with the document persisted ready
C32_Witness ==
    /\ onesReported[1] >= 1
    /\ ActiveLoops(1) = 0
    /\ HasBook(storedLibrary, 1) /\ Stored(1).status = "ready"
    /\ PageCount(bookFiles[1]) = Stored(1).total_paginas

\* C33: a document persisted as ready has exactly total_paginas records in its
\* page file.
C33_ReadyMeansComplete ==
    \A d \in Docs :
        (HasBook(storedLibrary, d) /\ Stored(d).status = "ready")
            => PageCount(bookFiles[d]) = Stored(d).total_paginas

\* C34: once removeBook has persisted the list without a document, the document
\* has no entry in the persisted list again, and its page file, once deleted, is
\* not created again.
C34_NoResurrection ==
    /\ [](\A d \in removedPersisted : ~HasBook(storedLibrary, d))
    /\ [][\A d \in removedPersisted :
             ~bookFiles[d].exists => ~bookFiles'[d].exists]_vars

\* C35: the step in which a status, state, bookmark or annotation call addressed
\* to one document saves its list leaves the persisted entry of every other
\* document as it was.
C35_CrossDocumentFrame ==
    [][\A t \in Running :
          (/\ t.kind \in {"updateBookStatus", "updateBookState", "addBookmark",
                          "removeBookmark", "saveAnnotation", "removeAnnotation"}
           /\ StoreSave(t)) =>
              \A b \in StoreDocs \ {t.bookId} :
                  /\ HasBook(storedLibrary', b) = HasBook(storedLibrary, b)
                  /\ HasBook(storedLibrary, b) =>
                        BookOf(storedLibrary', b) = BookOf(storedLibrary, b)]_vars

\* C36: while a book is open in the player, the current page index is at least 0
\* and at most total_paginas - 1.
C36_PageIndexBounds ==
    bookInfo.id_arquivo # 0 =>
        /\ player.currentPageIndex >= 0
        /\ player.currentPageIndex <= bookInfo.total_paginas - 1


\* a request for the next page, admitted on an earlier page, is still pending
\* while the last page is the current one
C36_Witness ==
    /\ bookInfo.id_arquivo # 0
    /\ player.currentPageIndex = bookInfo.total_paginas - 1
    /\ player.pendingNav.on
    /\ ~player.pendingNav.absolute
    /\ player.pendingNav.deltaOrIndex = 1

\* ------------------------------------------------------------ the player, fair
\* effects run after the render that made them due; what the user and the
\* speech engine do, and when, is left open
SpecPlayerLive == InitPlayer /\ [][NextPlayer]_vars /\ WF_vars(PlayerEffects)

\* safeGoTo has just committed a page change
JustCommitted ==
    /\ player.focused
    /\ player.navLock /\ player.lockLeft = MIN_PAGE_CHANGE_INTERVAL

\* C37: after a committed page change the page-loading flag becomes false with
\* the data of the current page shown (or the player is left).
C37_LoadingResolves ==
    JustCommitted ~>
        \/ ~player.focused
        \/ (~player.isPageLoading /\ player.pageData = player.currentPageIndex)

\* C38: while a book is open in the player, the listening-time timer runs exactly
\* when the playing flag is set.
C38_AccumulatorFollowsPlayback ==
    bookInfo.id_arquivo # 0 => (player.timerOn <=> player.isPlaying)

====
